---- MODULE Spec2Model ----
(***************************************************************************)
(* ChatSync network interception pipeline: endpoint registry, bounded body *)
(* collector, the three transport patchers (http/https, fetch, http2) and  *)
(* the NetworkInterceptor orchestrator.                                    *)
(*                                                                         *)
(* Conventions                                                             *)
(*   - a JS string is a sequence of UTF-16 code units (code points below   *)
(*     0x10000), a Buffer is a sequence of byte values 0..255;             *)
(*   - a URL path is a sequence of path atoms ("/", "v1", ...): the atoms  *)
(*     are chosen so that startsWith on atoms is startsWith on characters; *)
(*   - a function value held in a patched global is 0 for the runtime's    *)
(*     original function and k > 0 for the wrapper closure created by the  *)
(*     k-th patcher call.                                                  *)
(***************************************************************************)
EXTENDS Integers, Sequences, FiniteSets, TLC

VARIABLES
  \* -- a BodyCollector under a sequence of push calls
  bc,        \* the collector object
  pushed,    \* every chunk handed to push so far, in order
  lastPush,  \* "none", or the return value of the latest push: "true"/"false"
  \* -- one outbound call through a patched transport
  tr,        \* "none", "https" (http and https), "http2" or "fetch"
  pc,        \* position of the call
  limit,     \* maxBodyBytes the patcher was installed with
  cap,       \* what the wrapper decided: instrumented or not, info, endpoint
  reqC,      \* request body capture
  respC,     \* response body capture
  resp,      \* response head seen by the capture: statusCode, isStreaming
  seen,      \* what the caller has observed of the call so far
  origOut,   \* what the underlying (unpatched) call has produced so far
  sent,      \* number of write calls, then of data events, so far
  exch,      \* exchanges handed to the onExchange callback
  fbuf,      \* fetch: method, captured request text, body bytes being read
  \* -- the patched globals, the patcher calls and the NetworkInterceptor
  glob,      \* http.request, http.get, https.request, https.get, http2.connect, fetch
  patches,   \* one record per patcher call: what its closure captured
  ni,        \* the NetworkInterceptor object
  sessions,  \* http2 sessions: the request wrappers put on each at connect
  flight,    \* requests started and not yet ended
  fired,     \* exchanges fired on NetworkInterceptor.onExchange by the step just taken
  last,      \* the request ended by the step just taken: started how, callbacks called
  \* -- an SSE text handed to parseSSEEvents
  raw,       \* the text, a sequence of text atoms
  events,    \* what parseSSEEvents returned for it
  \* -- an exchange handled by the onExchange listener
  ex,        \* the InterceptedExchange
  parserOut, \* what the provider parser returned or raised for it
  conv,      \* what parseExchangeToConversation returned or raised for it
  \* -- a Claude Code session file handed to the extractor
  file,      \* the JSONL lines
  extracted, \* what parseJsonlFile returned for it
  \* -- the extractors, the local cache, the sync engine and the auth manager
  scan,      \* one extractAll pass over the units of a storage path
  cache,     \* the conversations table of the LocalCache and the upload queue
  poll,      \* CursorExtractor change polling: files, recorded mtimes, callbacks
  pb,        \* a byte buffer under the heuristic protobuf scan
  sync,      \* SyncEngine.fullSync runs
  authm      \* the AuthManager: state, stored JWT, refreshes in flight

varsBC == <<bc, pushed, lastPush>>

varsCall == <<tr, pc, limit, cap, reqC, respC, resp, seen, origOut, sent, exch, fbuf>>

\* what an action of one part leaves alone: the variables of the other parts
varsLife == <<glob, patches, ni, sessions, flight, fired, last>>

varsSSE == <<raw, events>>

varsParse == <<ex, parserOut, conv>>

varsExtract == <<file, extracted>>

varsBack == <<scan, cache, poll, pb, sync, authm>>

varsFront == <<varsBC, varsCall, varsLife, varsSSE, varsParse, varsExtract>>

restBC == <<varsCall, varsLife, varsSSE, varsParse, varsExtract, varsBack>>
restCall == <<varsBC, varsLife, varsSSE, varsParse, varsExtract, varsBack>>
restLife == <<varsBC, varsCall, varsSSE, varsParse, varsExtract, varsBack>>
restSSE == <<varsBC, varsCall, varsLife, varsParse, varsExtract, varsBack>>
restParse == <<varsBC, varsCall, varsLife, varsSSE, varsExtract, varsBack>>
restExtract == <<varsBC, varsCall, varsLife, varsSSE, varsParse, varsBack>>
restScan == <<varsFront, cache, poll, pb, sync, authm>>
restCache == <<varsFront, scan, poll, pb, sync, authm>>
restPoll == <<varsFront, scan, cache, pb, sync, authm>>
restPb == <<varsFront, scan, cache, poll, sync, authm>>
restSync == <<varsFront, scan, cache, poll, pb, authm>>
restAuth == <<varsFront, scan, cache, poll, pb, sync>>

\* a part that takes no step in the run under study
Unused == [pc |-> "unused"]

IdleScan == scan = Unused
IdleCache == cache = Unused
IdlePoll == poll = Unused
IdlePb == pb = Unused
IdleSync == sync = Unused
IdleAuth == authm = Unused

IdleBack == IdleScan /\ IdleCache /\ IdlePoll /\ IdlePb /\ IdleSync /\ IdleAuth

----------------------------------------------------------------------------
(* Bounds of the exploration *)

\* largest maxBytes a collector or a patch is constructed with
MaxLimit == 3
\* number of push calls enumerated on one collector
MaxPushes == 3
\* request-body writes before end(), and response data events, per call
MaxWrites == 1
\* direct patcher calls per transport
MaxPatchCalls == 2
\* enable() calls that install patches, over the interceptor's life
MaxEnables == 1
\* http2 sessions kept open
MaxSessions == 1
\* requests in flight at a time
MaxInFlight == 1
\* atoms of an SSE text
MaxSseAtoms == 5
\* lines of a session file
MaxLines == 2
\* units (workspaces, files) of one extractAll pass
MaxUnits == 3
\* messages of a stored conversation
MaxMessages == 2

----------------------------------------------------------------------------
(* Constants of the source *)

\* generateConversationId: milliseconds per bucket
MinuteMs == 60000
\* parseExchangeToConversation: longest title
TitleMax == 100
\* deriveTitle: longest title, and what is kept of a longer text
TitleLimit == 80
TitleKeep == 77

----------------------------------------------------------------------------
(* Generic helpers *)

Min(a, b) == IF a < b THEN a ELSE b

Range(s) == { s[i] : i \in 1..Len(s) }

\* JS String.prototype.slice(0, n) / Buffer.subarray(0, n) for n >= 0
Slice0(s, n) == SubSeq(s, 1, Min(n, Len(s)))

\* JS String.prototype.startsWith
StartsWith(s, p) == Len(p) <= Len(s) /\ SubSeq(s, 1, Len(p)) = p

RECURSIVE Flatten(_)
\* Buffer.concat / string concatenation of a list of pieces
Flatten(ss) == IF ss = <<>> THEN <<>> ELSE Head(ss) \o Flatten(Tail(ss))

----------------------------------------------------------------------------
(* UTF-8: Buffer.from(string) and Buffer.toString("utf-8") *)

REPLACEMENT == 65533

\* bytes of one code unit (no surrogates in the modelled alphabet)
EncodeUnit(cp) ==
  IF cp < 128 THEN <<cp>>
  ELSE IF cp < 2048 THEN <<192 + (cp \div 64), 128 + (cp % 64)>>
  ELSE <<224 + (cp \div 4096), 128 + ((cp \div 64) % 64), 128 + (cp % 64)>>

RECURSIVE Utf8Encode(_)
Utf8Encode(str) ==
  IF str = <<>> THEN <<>> ELSE EncodeUnit(Head(str)) \o Utf8Encode(Tail(str))

IsCont(b) == b >= 128 /\ b <= 191

\* number of continuation bytes a lead byte announces (0: not a lead byte)
Need(b) == IF b >= 194 /\ b <= 223 THEN 1
           ELSE IF b >= 224 /\ b <= 239 THEN 2
           ELSE 0

RECURSIVE ContRun(_, _)
\* how many of the first n bytes of bs are continuation bytes, in a row
ContRun(bs, n) ==
  IF n = 0 \/ bs = <<>> \/ ~IsCont(Head(bs)) THEN 0
  ELSE 1 + ContRun(Tail(bs), n - 1)

RECURSIVE Utf8Decode(_)
\* the decoder replaces every maximal ill-formed subsequence by U+FFFD
Utf8Decode(bs) ==
  IF bs = <<>> THEN <<>>
  ELSE LET b == Head(bs)
           rest == Tail(bs)
       IN IF b < 128 THEN <<b>> \o Utf8Decode(rest)
          ELSE IF Need(b) = 0 THEN <<REPLACEMENT>> \o Utf8Decode(rest)
          ELSE LET got == ContRun(rest, Need(b))
                   tail == SubSeq(rest, got + 1, Len(rest))
               IN IF got < Need(b) THEN <<REPLACEMENT>> \o Utf8Decode(tail)
                  ELSE IF Need(b) = 1
                       THEN <<(b - 192) * 64 + (rest[1] - 128)>> \o Utf8Decode(tail)
                       ELSE <<(b - 224) * 4096 + (rest[1] - 128) * 64 + (rest[2] - 128)>>
                              \o Utf8Decode(tail)

\* size in bytes of a JS string once written out as UTF-8
Utf8Len(str) == Len(Utf8Encode(str))

----------------------------------------------------------------------------
(* Endpoint registry *)

ENDPOINTS == <<
  [provider |-> "openai", hostname |-> "api.openai.com",
   pathPrefix |-> <<"/", "v1", "/", "chat", "/", "completions">>, label |-> "OpenAI Chat"],
  [provider |-> "openai", hostname |-> "api.githubcopilot.com",
   pathPrefix |-> <<"/", "chat", "/", "completions">>, label |-> "GitHub Copilot"],
  [provider |-> "openai", hostname |-> "copilot-proxy.githubusercontent.com",
   pathPrefix |-> <<"/", "v1", "/", "chat", "/", "completions">>, label |-> "Copilot Proxy"],
  [provider |-> "google", hostname |-> "generativelanguage.googleapis.com",
   pathPrefix |-> <<"/">>, label |-> "Gemini"],
  [provider |-> "google", hostname |-> "us-central1-aiplatform.googleapis.com",
   pathPrefix |-> <<"/", "v1", "/", "projects", "/">>, label |-> "Vertex AI"],
  [provider |-> "google", hostname |-> "autopush-generativelanguage.googleapis.com",
   pathPrefix |-> <<"/">>, label |-> "Gemini (Autopush)"],
  [provider |-> "anthropic", hostname |-> "api.anthropic.com",
   pathPrefix |-> <<"/", "v1", "/", "messages">>, label |-> "Anthropic Messages"]
>>

\* the hostname index: the registry entries of one hostname, in registry order
byHostname(h) == SelectSeq(ENDPOINTS, LAMBDA ep : ep.hostname = h)

\* a value handed to matchEndpoint: a string, undefined, or a non-string
StrVal(s) == [kind |-> "str", v |-> s]
UNDEF == [kind |-> "undef", v |-> <<>>]
NONSTR == [kind |-> "num", v |-> <<>>]

\* JS truthiness of such a value ("" and undefined are falsy)
Truthy(x) == x.kind = "num" \/ (x.kind = "str" /\ x.v # <<>>)

NoEndpoint == [provider |-> "", hostname |-> "", pathPrefix |-> <<>>, label |-> ""]

\* the loop without the prefix test: the hostname alone decides
FirstPrefix_HostOnly(cands, path) ==
  IF cands = <<>> THEN NoEndpoint ELSE Head(cands)

RECURSIVE FirstPrefix(_, _)
\* the for-loop of matchEndpoint: first candidate whose prefix starts the path
FirstPrefix(cands, path) ==
  IF cands = <<>> THEN NoEndpoint
  ELSE IF StartsWith(path, Head(cands).pathPrefix) THEN Head(cands)
  ELSE FirstPrefix(Tail(cands), path)

\* result: [tag |-> "ok", ep], [tag |-> "null"] or [tag |-> "throw"]
\* hostname: a hostname string (TLA+ string), "" when absent; path: a value
\* as above. path.startsWith on a non-string is a TypeError.
matchEndpoint(hostname, path) ==
  IF hostname = "" \/ ~Truthy(path) THEN [tag |-> "null", ep |-> NoEndpoint]
  ELSE IF byHostname(hostname) = <<>> THEN [tag |-> "null", ep |-> NoEndpoint]
  ELSE IF path.kind # "str" THEN [tag |-> "throw", ep |-> NoEndpoint]
  ELSE LET ep == FirstPrefix(byHostname(hostname), path.v)
       IN IF ep = NoEndpoint THEN [tag |-> "null", ep |-> NoEndpoint]
          ELSE [tag |-> "ok", ep |-> ep]

----------------------------------------------------------------------------
(* BodyCollector *)

\* new BodyCollector(maxBytes)
NewCollector(maxBytes) ==
  [chunks |-> <<>>, totalBytes |-> 0, truncated |-> FALSE, maxBytes |-> maxBytes]

\* a chunk is a string or a Buffer
StrChunk(s) == [kind |-> "string", data |-> s]
BufChunk(b) == [kind |-> "buffer", data |-> b]

ChunkBytes(chunk) ==
  IF chunk.kind = "string" THEN Utf8Encode(chunk.data) ELSE chunk.data

\* push with the cap test written >= : a chunk that fills the collector
\* exactly is already treated as overflow
PushState_CapInclusive(col, chunk) ==
  LET buf == ChunkBytes(chunk)
      remaining == col.maxBytes - col.totalBytes
  IN IF col.truncated THEN col
     ELSE IF col.totalBytes + Len(buf) >= col.maxBytes
          THEN IF remaining > 0
               THEN [col EXCEPT !.chunks = Append(@, Slice0(buf, remaining)),
                               !.totalBytes = col.maxBytes,
                               !.truncated = TRUE]
               ELSE [col EXCEPT !.truncated = TRUE]
          ELSE [col EXCEPT !.chunks = Append(@, buf),
                          !.totalBytes = @ + Len(buf)]

\* push(chunk): the collector afterwards
PushState(col, chunk) ==
  LET buf == ChunkBytes(chunk)
      remaining == col.maxBytes - col.totalBytes
  IN IF col.truncated THEN col
     ELSE IF col.totalBytes + Len(buf) > col.maxBytes
          THEN IF remaining > 0
               THEN [col EXCEPT !.chunks = Append(@, Slice0(buf, remaining)),
                               !.totalBytes = col.maxBytes,
                               !.truncated = TRUE]
               ELSE [col EXCEPT !.truncated = TRUE]
          ELSE [col EXCEPT !.chunks = Append(@, buf),
                          !.totalBytes = @ + Len(buf)]

\* push(chunk): the return value
PushResult(col, chunk) ==
  ~col.truncated /\ ~(col.totalBytes + Len(ChunkBytes(chunk)) > col.maxBytes)

\* the collected bytes, Buffer.concat(this.chunks)
CollectorBytes(col) == Flatten(col.chunks)

\* toString(): the collected bytes decoded as UTF-8
CollectorToString(col) == Utf8Decode(CollectorBytes(col))

----------------------------------------------------------------------------
(* http/https patcher: request-info extraction and the request wrapper *)

\* String.prototype.toUpperCase on the method names that occur
ToUpperCase(m) ==
  CASE m = "get" -> "GET" [] m = "post" -> "POST" [] OTHER -> m

\* An argument of http.request(...): a URL object, a string (a full URL or
\* not), an options object, or the callback.
\*   hostname, host: "" when the property is absent
\*   path: pathname + search for a URL; opts.path (any value) for options
\*   method: "" when absent
UrlArg(h, pth) ==
  [k |-> "url", valid |-> TRUE, hostname |-> h, host |-> "", path |-> StrVal(pth), method |-> ""]
StringArg(ok, h, pth) ==
  [k |-> "string", valid |-> ok, hostname |-> h, host |-> "", path |-> StrVal(pth), method |-> ""]
OptionsArg(h, hst, pth, m) ==
  [k |-> "options", valid |-> TRUE, hostname |-> h, host |-> hst, path |-> pth, method |-> m]
CallbackArg ==
  [k |-> "function", valid |-> TRUE, hostname |-> "", host |-> "", path |-> UNDEF, method |-> ""]

NoInfo == [found |-> FALSE, hostname |-> "", path |-> UNDEF, method |-> ""]

RECURSIVE extractRequestInfo(_)
\* the first argument that yields a hostname decides; null when none does
extractRequestInfo(args) ==
  IF args = <<>> THEN NoInfo
  ELSE LET arg == Head(args) IN
    IF arg.k = "url" \/ (arg.k = "string" /\ arg.valid)
    THEN [found |-> TRUE, hostname |-> arg.hostname, path |-> arg.path, method |-> "GET"]
    ELSE IF arg.k = "options" /\ (IF arg.hostname # "" THEN arg.hostname ELSE arg.host) # ""
    THEN [found |-> TRUE,
          hostname |-> IF arg.hostname # "" THEN arg.hostname ELSE arg.host,
          path |-> IF arg.path.kind = "undef" THEN StrVal(<<"/">>) ELSE arg.path,
          method |-> ToUpperCase(IF arg.method = "" THEN "GET" ELSE arg.method)]
    ELSE extractRequestInfo(Tail(args))

\* What node issues the request with, for the documented call shapes
\* (url[, cb]), (url, options[, cb]) and (options[, cb]): the properties of
\* the URL, overridden by those the options object has (Object.assign),
\* then hostname || host || "localhost", path || "/", method || "GET" in
\* upper case. A string that is no URL makes the call throw.
IssuedWith(args) ==
  LET first == args[1]
      over == IF Len(args) >= 2 /\ args[2].k = "options" /\ first.k # "options"
              THEN args[2] ELSE OptionsArg("", "", UNDEF, "")
      hostname == IF over.hostname # "" THEN over.hostname ELSE first.hostname
      host == IF over.host # "" THEN over.host ELSE first.host
      pth == IF over.path.kind # "undef" THEN over.path ELSE first.path
      method == IF over.method # "" THEN over.method ELSE first.method
  IN IF first.k = "function" \/ ~first.valid THEN NoInfo
     ELSE [found |-> TRUE,
           hostname |-> IF hostname # "" THEN hostname
                        ELSE IF host # "" THEN host ELSE "localhost",
           path |-> IF (pth.kind = "str" /\ pth.v = <<>>) \/ pth.kind = "undef"
                    THEN StrVal(<<"/">>) ELSE pth,
           method |-> ToUpperCase(IF method = "" THEN "GET" ELSE method)]

\* The try block of the wrapper (part_007 lines 63-81): what the capture
\* code decides for one call.
\*   tag "skip": no info or no endpoint, the request is left alone
\*   tag "instrument": instrumentRequest is applied with endpoint ep
\*   tag "throw": the block raised
HttpsTryBlock(args) ==
  LET info == extractRequestInfo(args)
      m == matchEndpoint(info.hostname, info.path)
  IN IF ~info.found THEN [tag |-> "skip", info |-> info, ep |-> NoEndpoint]
     ELSE IF m.tag = "throw" THEN [tag |-> "throw", info |-> info, ep |-> NoEndpoint]
     ELSE IF m.tag = "null" THEN [tag |-> "skip", info |-> info, ep |-> NoEndpoint]
     ELSE [tag |-> "instrument", info |-> info, ep |-> m.ep]

\* the wrapper without its try/catch: a raise of the capture code reaches
\* the caller
wrapRequest_NoCatch(origResult, args) ==
  IF origResult = "throw" THEN "origError"
  ELSE IF HttpsTryBlock(args).tag = "throw" THEN "captureError"
  ELSE "value"

\* What the caller of the wrapped http(s).request observes: the original is
\* called first, outside the try; everything after is inside try/catch and
\* every path returns req.
\*   "origError": the original threw, "value": req is returned
wrapRequest(origResult, args) ==
  IF origResult = "throw" THEN "origError"
  ELSE "value"

\* the chunk a wrapped req.write / req.end hands to the collector:
\* strings and Buffers as they are, anything else through String(chunk)
WriteChunk(chunk) ==
  IF chunk.kind \in {"string", "buffer"} THEN chunk ELSE BufChunk(Utf8Encode(chunk.data))

\* a chunk that is neither a string nor a Buffer (a number); data holds the
\* characters of String(chunk)
OtherChunk(s) == [kind |-> "other", data |-> s]
\* null / undefined passed as chunk
NullChunk == [kind |-> "null", data |-> <<>>]
\* the callback passed to end(cb)
FnChunk == [kind |-> "function", data |-> <<>>]

\* isSSEContentType; the header is "" when absent
isSSEContentType(contentType) ==
  contentType \in {"text/event-stream", "text/event-stream; charset=utf-8", "text/x-sse"}

----------------------------------------------------------------------------
(* One call through a patched transport: shared state *)


HostSamples == {"api.openai.com", "generativelanguage.googleapis.com", "example.com"}

\* pathname (+ search) samples
PathSamples ==
  { <<"/", "v1", "/", "chat", "/", "completions">>,
    <<"/", "v1", "/", "chat", "/", "completions", "?beta">>,
    <<"/", "v1", "/", "models">> }

\* body pieces: ASCII, two-byte and three-byte characters, and raw bytes
\* that are not UTF-8 on their own
BodySamples ==
  { StrChunk(<<97, 98>>), StrChunk(<<233, 233>>), BufChunk(<<226, 130, 172, 99>>),
    BufChunk(<<255, 254>>) }

StatusSamples == {200, 404}

ContentTypeSamples == {"", "application/json", "text/event-stream"}

NoAuthority == [valid |-> FALSE, hostname |-> ""]
NoCap == [instr |-> FALSE, info |-> NoInfo, ep |-> NoEndpoint, match |-> "none",
          auth |-> NoAuthority, issued |-> NoInfo]
NoResp == [statusCode |-> 0, isStreaming |-> FALSE, contentType |-> ""]

\* the InterceptedExchange built when the response ends
Exchange(info, ep, reqBody, statusCode, respBody, isStreaming) ==
  [request |-> [method |-> info.method, hostname |-> info.hostname,
                path |-> info.path.v, endpoint |-> ep, body |-> reqBody],
   response |-> [statusCode |-> statusCode, body |-> respBody,
                 isStreaming |-> isStreaming]]

NoFetchBuf == [method |-> "", req |-> <<>>, text |-> <<>>]

IdleCall ==
  /\ tr = "none" /\ pc = "idle" /\ limit = 0 /\ cap = NoCap
  /\ reqC = NewCollector(0) /\ respC = NewCollector(0) /\ resp = NoResp
  /\ seen = "none" /\ origOut = "none" /\ sent = 0 /\ exch = <<>>
  /\ fbuf = NoFetchBuf

InitCall ==
  /\ tr \in {"https", "http2", "fetch"}
  /\ pc = "start"
  /\ limit \in 0..MaxLimit
  /\ cap = NoCap
  /\ reqC = NewCollector(limit) /\ respC = NewCollector(limit) /\ resp = NoResp
  /\ seen = "none" /\ origOut = "none" /\ sent = 0 /\ exch = <<>>
  /\ fbuf = NoFetchBuf

----------------------------------------------------------------------------
(* http/https: the life of one wrapped request *)

HttpsArgSamples ==
  { <<UrlArg(h, pth), CallbackArg>> : h \in HostSamples, pth \in PathSamples }
  \cup { <<StringArg(TRUE, h, pth)>> : h \in {"api.openai.com"}, pth \in PathSamples }
  \cup { <<OptionsArg(h, "", StrVal(pth), "post"), CallbackArg>> :
            h \in HostSamples, pth \in PathSamples }
  \cup { <<OptionsArg("", h, pv, "")>> :
            h \in HostSamples, pv \in {UNDEF, NONSTR, StrVal(<<>>)} }
  \cup { <<UrlArg("api.openai.com", <<"/", "v1", "/", "chat", "/", "completions">>),
            OptionsArg("", "", UNDEF, m), CallbackArg>> : m \in {"", "post"} }
  \cup { <<OptionsArg("", "", StrVal(<<"/", "v1", "/", "models">>), "get")>>,
          <<StringArg(FALSE, "", <<>>), OptionsArg("api.openai.com", "",
              StrVal(<<"/", "v1", "/", "chat", "/", "completions">>), "post")>> }

\* http.request(...args) / https.request(...args) through the wrapper
HttpsCall ==
  /\ tr = "https" /\ pc = "start"
  /\ \E args \in HttpsArgSamples, o \in {"ok", "throw"} :
       LET t == HttpsTryBlock(args) IN
       /\ seen' = wrapRequest(o, args)
       /\ origOut' = IF o = "throw" THEN "origError" ELSE "value"
       /\ IF o = "throw"
          THEN pc' = "done" /\ cap' = cap
          ELSE /\ pc' = "open"
               /\ cap' = [instr |-> t.tag = "instrument", info |-> t.info, ep |-> t.ep,
                           match |-> matchEndpoint(t.info.hostname, t.info.path).tag,
                           auth |-> NoAuthority, issued |-> IssuedWith(args)]
  /\ UNCHANGED <<tr, limit, reqC, respC, resp, sent, exch, fbuf>>
  /\ UNCHANGED restCall

\* req.write(chunk): the capture pushes, then the original write runs
HttpsWrite ==
  /\ tr = "https" /\ pc = "open" /\ sent < MaxWrites
  /\ \E chunk \in BodySamples \cup {OtherChunk(<<52, 50>>), NullChunk} :
       /\ reqC' = IF cap.instr /\ chunk.kind # "null"
                  THEN PushState(reqC, WriteChunk(chunk)) ELSE reqC
       /\ sent' = sent + 1
  /\ UNCHANGED <<tr, pc, limit, cap, respC, resp, seen, origOut, exch, fbuf>>
  /\ UNCHANGED restCall

\* req.end(chunk?) or req.end(callback)
HttpsEnd ==
  /\ tr = "https" /\ pc = "open"
  /\ \E chunk \in BodySamples \cup {NullChunk, FnChunk} :
       /\ reqC' = IF cap.instr /\ chunk.kind \notin {"null", "function"}
                  THEN PushState(reqC, WriteChunk(chunk)) ELSE reqC
  /\ pc' = "sent"
  /\ sent' = sent
  /\ UNCHANGED <<tr, limit, cap, respC, resp, seen, origOut, exch, fbuf>>
  /\ UNCHANGED restCall

\* the "response" event: a fresh response collector, the SSE flag
HttpsResponse ==
  /\ tr = "https" /\ pc = "sent"
  /\ \E st \in StatusSamples, ct \in ContentTypeSamples :
       resp' = IF cap.instr THEN [statusCode |-> st, isStreaming |-> isSSEContentType(ct),
                                  contentType |-> ct]
               ELSE resp
  /\ respC' = NewCollector(limit)
  /\ pc' = "resp"
  /\ sent' = 0
  /\ UNCHANGED <<tr, limit, cap, reqC, seen, origOut, exch, fbuf>>
  /\ UNCHANGED restCall

\* a "data" event of the response
HttpsData ==
  /\ tr = "https" /\ pc = "resp" /\ sent < MaxWrites
  /\ \E chunk \in BodySamples :
       /\ respC' = IF cap.instr THEN PushState(respC, chunk) ELSE respC
       /\ sent' = sent + 1
  /\ UNCHANGED <<tr, pc, limit, cap, reqC, resp, seen, origOut, exch, fbuf>>
  /\ UNCHANGED restCall

\* whether a raise of onExchange leaves the "end" listener: the listener's
\* body is one try/catch that only logs
HttpsEndRaises(cbThrows) == FALSE

\* the "end" event of the response: the exchange is built and handed to
\* onExchange inside try/catch; a raise of the callback is logged
HttpsResEnd ==
  /\ tr = "https" /\ pc = "resp"
  /\ \E cbThrows \in BOOLEAN :
       seen' = IF cap.instr /\ HttpsEndRaises(cbThrows) THEN "captureError" ELSE seen
  /\ exch' = IF cap.instr
             THEN Append(exch, Exchange(cap.info, cap.ep, CollectorToString(reqC),
                                        resp.statusCode, CollectorToString(respC),
                                        resp.isStreaming))
             ELSE exch
  /\ pc' = "done"
  /\ UNCHANGED <<tr, limit, cap, reqC, respC, resp, origOut, sent, fbuf>>
  /\ UNCHANGED restCall

\* the request or the response fails: only a log line
HttpsError ==
  /\ tr = "https" /\ pc \in {"open", "sent", "resp"}
  /\ pc' = "done"
  /\ UNCHANGED <<tr, limit, cap, reqC, respC, resp, seen, origOut, sent, exch, fbuf>>
  /\ UNCHANGED restCall

----------------------------------------------------------------------------
(* http2: connect, then requests on the session *)

\* the authority given to http2.connect: new URL(authority) succeeds or not
AuthoritySamples ==
  { [valid |-> TRUE, hostname |-> h] : h \in HostSamples }
  \cup { [valid |-> FALSE, hostname |-> ""] }

\* the headers given to session.request: absent, or an object whose :path
\* and :method may be missing (path UNDEF, method "")
H2HeaderSamples ==
  { [present |-> TRUE, path |-> StrVal(pth), method |-> m] :
       pth \in PathSamples, m \in {"", "GET"} }
  \cup { [present |-> TRUE, path |-> pv, method |-> "POST"] : pv \in {UNDEF, NONSTR} }
  \cup { [present |-> FALSE, path |-> UNDEF, method |-> ""] }

\* The try block of the session.request wrapper (part_003 lines 40-51).
H2TryBlock(auth, headers) ==
  IF ~auth.valid \/ ~headers.present
  THEN [tag |-> "throw", info |-> NoInfo, ep |-> NoEndpoint, match |-> "none"]
  ELSE LET path == IF Truthy(headers.path) THEN headers.path ELSE StrVal(<<"/">>)
           method == IF headers.method # "" THEN headers.method ELSE "POST"
           m == matchEndpoint(auth.hostname, path)
           info == [found |-> TRUE, hostname |-> auth.hostname, path |-> path,
                    method |-> method]
       IN [tag |-> CASE m.tag = "throw" -> "throw"
                     [] m.tag = "null" -> "skip"
                     [] OTHER -> "instrument",
           info |-> info, ep |-> m.ep, match |-> m.tag]

\* what the caller of the wrapped session.request observes: the original is
\* called outside the try, the capture inside try/catch
H2WrapRequest(origResult, auth, headers) ==
  IF origResult = "throw" THEN "origError" ELSE "value"

\* http2.connect(authority) through the wrapper: only the session's request
\* method is replaced
H2Connect ==
  /\ tr = "http2" /\ pc = "start"
  /\ \E auth \in AuthoritySamples, o \in {"ok", "throw"} :
       /\ seen' = IF o = "throw" THEN "origError" ELSE "none"
       /\ origOut' = IF o = "throw" THEN "origError" ELSE "none"
       /\ pc' = IF o = "throw" THEN "done" ELSE "session"
       /\ cap' = [cap EXCEPT !.auth = auth]
  /\ UNCHANGED <<tr, limit, reqC, respC, resp, sent, exch, fbuf>>
  /\ UNCHANGED restCall

\* session.request(headers) on a session made by the wrapped connect
H2Request ==
  /\ tr = "http2" /\ pc = "session"
  /\ \E headers \in H2HeaderSamples, o \in {"ok", "throw"} :
       LET t == H2TryBlock(cap.auth, headers) IN
       /\ seen' = H2WrapRequest(o, cap.auth, headers)
       /\ origOut' = IF o = "throw" THEN "origError" ELSE "value"
       /\ IF o = "throw"
          THEN pc' = "done" /\ cap' = cap
          ELSE /\ pc' = "open"
               /\ cap' = [instr |-> t.tag = "instrument", info |-> t.info, ep |-> t.ep,
                           match |-> t.match, auth |-> cap.auth, issued |-> NoInfo]
  /\ UNCHANGED <<tr, limit, reqC, respC, resp, sent, exch, fbuf>>
  /\ UNCHANGED restCall

\* JS truthiness of a chunk: Buffers always, strings unless empty
ChunkTruthy(chunk) ==
  chunk.kind = "buffer" \/ (chunk.kind = "string" /\ chunk.data # <<>>)

\* stream.write(chunk)
H2Write ==
  /\ tr = "http2" /\ pc = "open" /\ sent < MaxWrites
  /\ \E chunk \in BodySamples \cup {StrChunk(<<>>)} :
       reqC' = IF cap.instr /\ ChunkTruthy(chunk) THEN PushState(reqC, chunk) ELSE reqC
  /\ sent' = sent + 1
  /\ UNCHANGED <<tr, pc, limit, cap, respC, resp, seen, origOut, exch, fbuf>>
  /\ UNCHANGED restCall

\* stream.end(chunk?) or stream.end(callback)
H2End ==
  /\ tr = "http2" /\ pc = "open"
  /\ \E chunk \in BodySamples \cup {NullChunk, FnChunk} :
       reqC' = IF cap.instr /\ ChunkTruthy(chunk) THEN PushState(reqC, chunk) ELSE reqC
  /\ pc' = "sent"
  /\ UNCHANGED <<tr, limit, cap, respC, resp, seen, origOut, sent, exch, fbuf>>
  /\ UNCHANGED restCall

\* the "response" event: statusCode = headers[":status"] || 0
H2Response ==
  /\ tr = "http2" /\ pc = "sent"
  /\ \E st \in StatusSamples \cup {0}, ct \in ContentTypeSamples :
       resp' = IF cap.instr THEN [statusCode |-> st, isStreaming |-> TRUE, contentType |-> ct]
               ELSE resp
  /\ pc' = "resp"
  /\ sent' = 0
  /\ UNCHANGED <<tr, limit, cap, reqC, respC, seen, origOut, exch, fbuf>>
  /\ UNCHANGED restCall

\* a "data" event of the stream
H2Data ==
  /\ tr = "http2" /\ pc = "resp" /\ sent < MaxWrites
  /\ \E chunk \in BodySamples :
       respC' = IF cap.instr THEN PushState(respC, chunk) ELSE respC
  /\ sent' = sent + 1
  /\ UNCHANGED <<tr, pc, limit, cap, reqC, resp, seen, origOut, exch, fbuf>>
  /\ UNCHANGED restCall

\* whether a raise of onExchange leaves the "end" listener of the stream
H2EndRaises(cbThrows) == FALSE

\* the "end" event of the stream: the exchange is built and delivered
H2StreamEnd ==
  /\ tr = "http2" /\ pc = "resp"
  /\ \E cbThrows \in BOOLEAN :
       seen' = IF cap.instr /\ H2EndRaises(cbThrows) THEN "captureError" ELSE seen
  /\ exch' = IF cap.instr
             THEN Append(exch, Exchange(cap.info, cap.ep, CollectorToString(reqC),
                                        resp.statusCode, CollectorToString(respC), TRUE))
             ELSE exch
  /\ pc' = "done"
  /\ UNCHANGED <<tr, limit, cap, reqC, respC, resp, origOut, sent, fbuf>>
  /\ UNCHANGED restCall

----------------------------------------------------------------------------
(* fetch: the async wrapper, await by await *)

PathnameSamples ==
  { <<"/", "v1", "/", "chat", "/", "completions">>, <<"/", "v1", "/", "models">> }

NoBody == [kind |-> "none", data |-> <<>>]

\* the first argument of fetch: a string, a URL, a Request, or something else
\*   valid: new URL(urlStr) succeeds;  used: the Request body was consumed
FetchInputSamples ==
  { [k |-> kk, valid |-> TRUE, hostname |-> h, pathname |-> pth, search |-> q,
     method |-> "", body |-> NoBody, used |-> FALSE] :
       kk \in {"string", "url"}, h \in {"api.openai.com", "example.com"},
       pth \in PathnameSamples, q \in {<<>>, <<"?beta">>} }
  \cup { [k |-> "request", valid |-> TRUE, hostname |-> "api.openai.com",
          pathname |-> <<"/", "v1", "/", "chat", "/", "completions">>, search |-> <<>>,
          method |-> "post", body |-> b, used |-> u] :
            b \in {StrChunk(<<233, 233>>), StrChunk(<<97, 98, 99, 100>>)}, u \in BOOLEAN }
  \cup { [k |-> "string", valid |-> FALSE, hostname |-> "", pathname |-> <<>>,
          search |-> <<>>, method |-> "", body |-> NoBody, used |-> FALSE],
         [k |-> "other", valid |-> FALSE, hostname |-> "", pathname |-> <<>>,
          search |-> <<>>, method |-> "", body |-> NoBody, used |-> FALSE] }

\* a method that is not a string (fetch(url, {method: 1}))
NonStringMethod == "#number"

\* the second argument of fetch: absent, or { method?, body? }
FetchInitSamples ==
  { [present |-> FALSE, method |-> "", body |-> NoBody] }
  \cup { [present |-> TRUE, method |-> m, body |-> NoBody] : m \in {"", NonStringMethod} }
  \cup { [present |-> TRUE, method |-> "post", body |-> b] :
            b \in { [kind |-> "string", data |-> <<97, 98>>],
                    [kind |-> "string", data |-> <<233, 233, 233>>],
                    [kind |-> "string", data |-> <<>>],
                    [kind |-> "arraybuffer", data |-> <<226, 130, 172, 99>>],
                    [kind |-> "view", data |-> <<97, 195, 169>>],
                    [kind |-> "stream", data |-> <<>>] } }

\* JS truthiness of init.body
BodyTruthy(b) == b.kind \in {"arraybuffer", "view", "stream"}
                 \/ (b.kind = "string" /\ b.data # <<>>)

\* request-body capture from init.body (part_006 lines 86-98)
FetchInitBody(b, maxBodyBytes) ==
  CASE b.kind = "string" -> Slice0(b.data, maxBodyBytes)
    [] b.kind = "arraybuffer" -> Utf8Decode(Slice0(b.data, maxBodyBytes))
    [] b.kind = "view" -> Utf8Decode(Slice0(b.data, Min(Len(b.data), maxBodyBytes)))
    [] OTHER -> <<>>

\* text.slice(0, maxBodyBytes) of a body read as text
FetchTextBody(bytes, maxBodyBytes) == Slice0(Utf8Decode(bytes), maxBodyBytes)

\* method = init?.method ?? (input instanceof Request ? input.method : "GET")
FetchMethod(input, init) ==
  IF init.present /\ init.method # "" THEN init.method
  ELSE IF input.k = "request" THEN input.method
  ELSE "GET"

\* fetch(input, init) up to its first await
FetchCall ==
  /\ tr = "fetch" /\ pc = "start"
  /\ \E input \in FetchInputSamples, init \in FetchInitSamples :
       LET parsed == input.k \in {"string", "url", "request"} /\ input.valid
           m == matchEndpoint(input.hostname, StrVal(input.pathname))
           method == FetchMethod(input, init)
           info == [found |-> TRUE, hostname |-> input.hostname,
                    path |-> StrVal(input.pathname \o input.search), method |-> method]
       IN
       IF ~parsed \/ m.tag = "null"
       THEN \* return origFetch(input, init)
            /\ pc' = "f_pass" /\ seen' = "pending" /\ origOut' = "pending"
            /\ cap' = [cap EXCEPT !.match = IF parsed THEN m.tag ELSE "none"]
            /\ fbuf' = fbuf
       ELSE IF m.tag = "throw"
       THEN \* outside every try: the returned promise rejects
            /\ pc' = "done" /\ seen' = "captureError" /\ origOut' = "none"
            /\ cap' = cap /\ fbuf' = fbuf
       ELSE /\ cap' = [instr |-> TRUE, info |-> info, ep |-> m.ep, match |-> m.tag,
                        auth |-> NoAuthority, issued |-> NoInfo]
            /\ seen' = "pending"
            /\ IF init.present /\ BodyTruthy(init.body)
               THEN /\ fbuf' = [method |-> method, text |-> <<>>,
                                req |-> FetchInitBody(init.body, limit)]
                    /\ pc' = "f_fetching" /\ origOut' = "pending"
               ELSE IF input.k = "request" /\ ~input.used
               THEN \* await clonedReq.text(): origFetch is not called yet
                    /\ fbuf' = [method |-> method, req |-> <<>>,
                                text |-> ChunkBytes(input.body)]
                    /\ pc' = "f_reqtext" /\ origOut' = "none"
               ELSE /\ fbuf' = [method |-> method, req |-> <<>>, text |-> <<>>]
                    /\ pc' = "f_fetching" /\ origOut' = "pending"
  /\ UNCHANGED <<tr, limit, reqC, respC, resp, sent, exch>>
  /\ UNCHANGED restCall

\* clonedReq.text() settles; then origFetch(input, init) is called
FetchReqText ==
  /\ tr = "fetch" /\ pc = "f_reqtext"
  /\ \E ok \in BOOLEAN :
       fbuf' = [fbuf EXCEPT !.req = IF ok THEN FetchTextBody(fbuf.text, limit) ELSE <<>>,
                            !.text = <<>>]
  /\ pc' = "f_fetching" /\ origOut' = "pending"
  /\ UNCHANGED <<tr, limit, cap, reqC, respC, resp, seen, sent, exch>>
  /\ UNCHANGED restCall

\* the underlying fetch settles: it rejects, or it resolves with a response
\* whose body is still to arrive
FetchSettle ==
  /\ tr = "fetch" /\ pc \in {"f_pass", "f_fetching"}
  /\ \E out \in {"resolve", "reject"}, st \in StatusSamples,
         ct \in ContentTypeSamples, cloneThrows \in BOOLEAN :
       IF out = "reject"
       THEN /\ origOut' = "origError" /\ seen' = "origError" /\ pc' = "done"
            /\ resp' = resp
       ELSE /\ origOut' = "response"
            /\ IF pc = "f_pass" \/ cloneThrows
               THEN seen' = "response" /\ pc' = "done" /\ resp' = resp
               ELSE /\ seen' = seen /\ pc' = "f_reading"
                    /\ resp' = [statusCode |-> st, isStreaming |-> isSSEContentType(ct),
                                 contentType |-> ct]
  /\ sent' = 0
  /\ UNCHANGED <<tr, limit, cap, reqC, respC, exch, fbuf>>
  /\ UNCHANGED restCall

\* a piece of the response body arrives; clone.text() is still pending
FetchChunk ==
  /\ tr = "fetch" /\ pc = "f_reading" /\ sent < MaxWrites
  /\ \E chunk \in BodySamples :
       fbuf' = [fbuf EXCEPT !.text = @ \o ChunkBytes(chunk)]
  /\ sent' = sent + 1
  /\ UNCHANGED <<tr, pc, limit, cap, reqC, respC, resp, seen, origOut, exch>>
  /\ UNCHANGED restCall

\* whether a raise after the response arrived (clone, exchange construction,
\* onExchange) leaves the wrapper: lines 116-162 are one try/catch
FetchTailRaises(constructThrows, cbThrows) == FALSE

\* the body ends (or fails): the exchange is built and delivered, and only
\* now does the wrapper return the response
FetchBodyEnd ==
  /\ tr = "fetch" /\ pc = "f_reading"
  /\ \E ok \in BOOLEAN, cbThrows \in BOOLEAN :
       LET responseBody == IF ok THEN FetchTextBody(fbuf.text, limit) ELSE <<>>
           constructThrows == fbuf.method = NonStringMethod
           info == [cap.info EXCEPT !.method = ToUpperCase(fbuf.method)]
       IN /\ exch' = IF constructThrows THEN exch
                     ELSE Append(exch, Exchange(info, cap.ep, fbuf.req, resp.statusCode,
                                                responseBody, resp.isStreaming))
          /\ seen' = IF FetchTailRaises(constructThrows, cbThrows)
                     THEN "captureError" ELSE "response"
  /\ pc' = "done"
  /\ UNCHANGED <<tr, limit, cap, reqC, respC, resp, origOut, sent, fbuf>>
  /\ UNCHANGED restCall

----------------------------------------------------------------------------
(* The patchers as functions on the process-wide globals *)

Originals ==
  [httpRequest |-> 0, httpGet |-> 0, httpsRequest |-> 0, httpsGet |-> 0,
   http2Connect |-> 0, fetch |-> 0]

\* the entry points one patcher replaces
Fields(kind) ==
  CASE kind = "https" -> {"httpRequest", "httpGet", "httpsRequest", "httpsGet"}
    [] kind = "fetch" -> {"fetch"}
    [] OTHER -> {"http2Connect"}

\* the closure state of one patcher call; orig is what it read from its
\* entry points on entry, noop marks a call that installed nothing.
\* Patcher calls are numbered per transport.
PatchRecord(kind, g, maxBodyBytes, cb, noop) ==
  [orig |-> [f \in DOMAIN g |-> IF f \in Fields(kind) THEN g[f] ELSE 0],
   maxBodyBytes |-> maxBodyBytes, cb |-> cb, noop |-> noop, restored |-> FALSE]

\* patchHttps(maxBodyBytes, log, onExchange): the four entry points are
\* replaced by wrappers around whatever is installed at the moment
patchHttps(w, maxBodyBytes, cb) ==
  LET k == Len(w.patches.https) + 1 IN
  [glob |-> [w.glob EXCEPT !.httpRequest = k, !.httpGet = k,
                           !.httpsRequest = k, !.httpsGet = k],
   patches |-> [w.patches EXCEPT !.https =
                  Append(@, PatchRecord("https", w.glob, maxBodyBytes, cb, FALSE))]]

\* patchFetch: skipped when the installed fetch carries __chatsync_patched
patchFetch(w, maxBodyBytes, cb) ==
  LET k == Len(w.patches.fetch) + 1 IN
  IF w.glob.fetch # 0
  THEN [glob |-> w.glob,
        patches |-> [w.patches EXCEPT !.fetch =
                       Append(@, PatchRecord("fetch", w.glob, maxBodyBytes, cb, TRUE))]]
  ELSE [glob |-> [w.glob EXCEPT !.fetch = k],
        patches |-> [w.patches EXCEPT !.fetch =
                       Append(@, PatchRecord("fetch", w.glob, maxBodyBytes, cb, FALSE))]]

\* patchHttp2: connect is replaced by a wrapper around whatever is installed
patchHttp2(w, maxBodyBytes, cb) ==
  LET k == Len(w.patches.http2) + 1 IN
  [glob |-> [w.glob EXCEPT !.http2Connect = k],
   patches |-> [w.patches EXCEPT !.http2 =
                  Append(@, PatchRecord("http2", w.glob, maxBodyBytes, cb, FALSE))]]

\* the restore function returned by the k-th patcher call of a transport
\* (k = 0: the interceptor's field is null, nothing is called)
unpatch(w, kind, k) ==
  IF k = 0 THEN w
  ELSE LET p == w.patches[kind][k]
           g == w.glob
       IN [patches |-> [w.patches EXCEPT ![kind][k].restored = TRUE],
           glob |-> IF p.noop THEN g
                    ELSE [f \in DOMAIN g |-> IF f \in Fields(kind) THEN p.orig[f] ELSE g[f]]]

RECURSIVE Chain(_, _, _)
\* the wrappers a call of function value f runs through, innermost first:
\* wrapper k calls the function its patcher captured, then instruments
Chain(ps, f, field) ==
  IF f = 0 THEN <<>> ELSE Append(Chain(ps, ps[f].orig[field], field), f)

\* the transport of an entry point
KindOf(entry) ==
  CASE entry \in {"http.request", "http.get", "https.request", "https.get"} -> "https"
    [] entry = "fetch" -> "fetch"
    [] OTHER -> "http2"

\* the wrappers that instrument a call of one entry point. The get wrappers
\* call the request that is installed at call time; the original get calls
\* the runtime's own request.
Instrumenters(g, ps, entry) ==
  CASE entry = "http.request" -> Chain(ps.https, g.httpRequest, "httpRequest")
    [] entry = "https.request" -> Chain(ps.https, g.httpsRequest, "httpsRequest")
    [] entry = "http.get" ->
         IF g.httpGet = 0 THEN <<>> ELSE Chain(ps.https, g.httpRequest, "httpRequest")
    [] entry = "https.get" ->
         IF g.httpsGet = 0 THEN <<>> ELSE Chain(ps.https, g.httpsRequest, "httpsRequest")
    [] entry = "fetch" -> Chain(ps.fetch, g.fetch, "fetch")
    [] OTHER -> Chain(ps.http2, g.http2Connect, "http2Connect")

NoPatches == [https |-> <<>>, fetch |-> <<>>, http2 |-> <<>>]

CountKind(ps, kind) == Len(ps[kind])

----------------------------------------------------------------------------
(* NetworkInterceptor *)

\* maxBodySizeBytes values a configuration may carry
LimitSamples == {1, MaxLimit}

ConfigSamples == [enabled : BOOLEAN, maxBodySizeBytes : LimitSamples]

World(g, ps) == [glob |-> g, patches |-> ps]

\* enable(): the interceptor and the world afterwards
enable(n, w) ==
  IF n.isEnabled THEN [ni |-> n, w |-> w]
  ELSE LET w1 == patchHttps(w, n.config.maxBodySizeBytes, "ni")
           w2 == patchFetch(w1, n.config.maxBodySizeBytes, "ni")
           w3 == patchHttp2(w2, n.config.maxBodySizeBytes, "ni")
       IN [ni |-> [n EXCEPT !.httpsPatch = Len(w1.patches.https),
                            !.fetchPatch = Len(w2.patches.fetch),
                            !.http2Patch = Len(w3.patches.http2),
                            !.isEnabled = TRUE],
           w |-> w3]

\* disable(): the interceptor and the world afterwards
disable(n, w) ==
  IF ~n.isEnabled THEN [ni |-> n, w |-> w]
  ELSE [ni |-> [n EXCEPT !.httpsPatch = 0, !.fetchPatch = 0, !.http2Patch = 0,
                         !.isEnabled = FALSE],
        w |-> unpatch(unpatch(unpatch(w, "https", n.httpsPatch),
                              "fetch", n.fetchPatch), "http2", n.http2Patch)]

\* updateConfig(config)
updateConfig(n, w, c) ==
  LET n1 == [n EXCEPT !.config = [maxBodySizeBytes |-> c.maxBodySizeBytes]] IN
  IF c.enabled /\ ~n1.isEnabled THEN enable(n1, w)
  ELSE IF ~c.enabled /\ n1.isEnabled THEN disable(n1, w)
  ELSE [ni |-> n1, w |-> w]

\* handleExchange with the status test written <= 300
handleExchange_Through300(statusCode, listenerThrows) ==
  [fire |-> statusCode >= 200 /\ statusCode <= 300, raised |-> FALSE]

\* the try block of handleExchange: fire on 2xx, log otherwise; threw tells
\* whether the block raised (a listener that throws)
handleExchangeTry(statusCode, listenerThrows) ==
  IF statusCode >= 200 /\ statusCode < 300
  THEN [fire |-> TRUE, threw |-> listenerThrows]
  ELSE [fire |-> FALSE, threw |-> FALSE]

\* handleExchange(exchange): whatever the try block raised is caught and
\* logged, nothing reaches the patcher that called
handleExchange(statusCode, listenerThrows) ==
  LET t == handleExchangeTry(statusCode, listenerThrows) IN
  [fire |-> t.fire, raised |-> IF t.threw THEN FALSE ELSE FALSE]

----------------------------------------------------------------------------
(* Lifecycle: patcher calls, the interceptor's operations, requests *)

NoLast == [kind |-> "none", callbacks |-> 0, statusCode |-> 0,
           enabledAtStart |-> FALSE, limitAtStart |-> 0, raised |-> FALSE]

\* what the interceptor keeps of a configuration: of the stored config only
\* maxBodySizeBytes is ever read, enabled is read from the argument
Stored(config) == [maxBodySizeBytes |-> config.maxBodySizeBytes]

NewInterceptor(config) ==
  [isEnabled |-> FALSE, config |-> Stored(config), httpsPatch |-> 0, fetchPatch |-> 0,
   http2Patch |-> 0, disposed |-> FALSE]

InitLife ==
  /\ glob = Originals
  /\ patches = NoPatches
  /\ \E c \in ConfigSamples : ni = NewInterceptor(c)
  /\ sessions = <<>> /\ flight = <<>> /\ fired = <<>> /\ last = NoLast

IdleLife ==
  /\ glob = Originals
  /\ patches = NoPatches
  /\ ni = NewInterceptor([enabled |-> FALSE, maxBodySizeBytes |-> 1])
  /\ sessions = <<>> /\ flight = <<>> /\ fired = <<>> /\ last = NoLast

\* fired and last describe the step just taken: a step that ends no
\* response delivers nothing
NothingDelivered == fired' = <<>> /\ last' = NoLast

\* room for one more enable()
RoomToPatch ==
  \A kind \in {"https", "fetch", "http2"} : CountKind(patches, kind) < MaxEnables

\* networkInterceptor.enable()
Enable ==
  /\ ~ni.disposed
  /\ ni.isEnabled \/ RoomToPatch
  /\ LET r == enable(ni, World(glob, patches)) IN
       ni' = r.ni /\ glob' = r.w.glob /\ patches' = r.w.patches
  /\ UNCHANGED <<sessions, flight>>
  /\ NothingDelivered
  /\ UNCHANGED restLife

\* networkInterceptor.disable()
Disable ==
  /\ ~ni.disposed
  /\ LET r == disable(ni, World(glob, patches)) IN
       ni' = r.ni /\ glob' = r.w.glob /\ patches' = r.w.patches
  /\ UNCHANGED <<sessions, flight>>
  /\ NothingDelivered
  /\ UNCHANGED restLife

\* networkInterceptor.toggle()
Toggle ==
  /\ ~ni.disposed
  /\ ni.isEnabled \/ RoomToPatch
  /\ LET r == IF ni.isEnabled THEN disable(ni, World(glob, patches))
              ELSE enable(ni, World(glob, patches)) IN
       ni' = r.ni /\ glob' = r.w.glob /\ patches' = r.w.patches
  /\ UNCHANGED <<sessions, flight>>
  /\ NothingDelivered
  /\ UNCHANGED restLife

\* networkInterceptor.updateConfig(c), as the configuration listener calls it
UpdateConfig ==
  /\ ~ni.disposed
  /\ \E c \in ConfigSamples :
       /\ ni.isEnabled \/ ~c.enabled \/ RoomToPatch
       /\ LET r == updateConfig(ni, World(glob, patches), c) IN
            ni' = r.ni /\ glob' = r.w.glob /\ patches' = r.w.patches
  /\ UNCHANGED <<sessions, flight>>
  /\ NothingDelivered
  /\ UNCHANGED restLife

\* networkInterceptor.dispose(): disable(), then the emitter is disposed.
\* The extension disposes the interceptor together with the toggle command
\* and the configuration listener, so no operation follows.
Dispose ==
  /\ ~ni.disposed
  /\ LET r == disable(ni, World(glob, patches)) IN
       ni' = [r.ni EXCEPT !.disposed = TRUE] /\ glob' = r.w.glob /\ patches' = r.w.patches
  /\ UNCHANGED <<sessions, flight>>
  /\ NothingDelivered
  /\ UNCHANGED restLife

\* a patcher called on its own, with a callback of the caller
PatchCall ==
  /\ \E kind \in {"https", "fetch", "http2"} :
       /\ CountKind(patches, kind) < MaxPatchCalls
       /\ LET w == World(glob, patches)
               r == CASE kind = "https" -> patchHttps(w, MaxLimit, "direct")
                      [] kind = "fetch" -> patchFetch(w, MaxLimit, "direct")
                      [] OTHER -> patchHttp2(w, MaxLimit, "direct")
          IN glob' = r.glob /\ patches' = r.patches
  /\ UNCHANGED <<ni, sessions, flight>>
  /\ NothingDelivered
  /\ UNCHANGED restLife

\* a restore function returned to such a caller is called (again)
UnpatchCall ==
  /\ \E kind \in {"https", "fetch", "http2"} : \E k \in 1..Len(patches[kind]) :
       /\ patches[kind][k].cb = "direct"
       /\ LET r == unpatch(World(glob, patches), kind, k) IN
            glob' = r.glob /\ patches' = r.patches
  /\ UNCHANGED <<ni, sessions, flight>>
  /\ NothingDelivered
  /\ UNCHANGED restLife

\* http2.connect(authority): the session's request carries one wrapper per
\* connect wrapper installed at this moment
Connect ==
  /\ Len(sessions) < MaxSessions
  /\ sessions' = Append(sessions, Instrumenters(glob, patches, "http2.connect"))
  /\ UNCHANGED <<glob, patches, ni, flight>>
  /\ NothingDelivered
  /\ UNCHANGED restLife

\* a session is closed
CloseSession ==
  /\ sessions # <<>>
  /\ sessions' = Tail(sessions)
  /\ UNCHANGED <<glob, patches, ni, flight>>
  /\ NothingDelivered
  /\ UNCHANGED restLife

\* the limit the current configuration asks for, 0 while nothing is to be
\* captured
LimitInForce == IF ni.isEnabled THEN ni.config.maxBodySizeBytes ELSE 0

EntrySamples == {"https.request", "http.get", "fetch"}

\* an ASCII request body one byte longer than the largest limit
LifeBodySamples == { [i \in 1..(MaxLimit + 1) |-> 97] }

\* a request to a registered endpoint starts, through an entry point or on
\* an open http2 session
StartRequest ==
  /\ Len(flight) < MaxInFlight
  /\ \E body \in LifeBodySamples :
       \/ \E entry \in EntrySamples :
            flight' = Append(flight,
              [kind |-> KindOf(entry), instr |-> Instrumenters(glob, patches, entry),
               enabledAtStart |-> ni.isEnabled,
               limitAtStart |-> LimitInForce, body |-> body])
       \/ \E i \in 1..Len(sessions) :
            flight' = Append(flight,
              [kind |-> "http2", instr |-> sessions[i],
               enabledAtStart |-> ni.isEnabled,
               limitAtStart |-> LimitInForce, body |-> body])
  /\ UNCHANGED <<glob, patches, ni, sessions>>
  /\ NothingDelivered
  /\ UNCHANGED restLife

\* the request body as one wrapper captures it
CapturedBody(kind, body, maxBodyBytes) ==
  IF kind = "fetch" THEN FetchInitBody([kind |-> "string", data |-> body], maxBodyBytes)
  ELSE CollectorToString(PushState(NewCollector(maxBodyBytes), StrChunk(body)))

LifeStatusSamples == {199, 200, 299, 300}

\* the response of a request in flight ends: every wrapper that instrumented
\* it builds its exchange and calls its onExchange
EndRequest ==
  /\ flight # <<>>
  /\ \E st \in LifeStatusSamples, listenerThrows \in BOOLEAN :
       LET rq == Head(flight)
           h == handleExchange(st, listenerThrows)
           ps == patches[rq.kind]
           all == [i \in 1..Len(rq.instr) |->
                     [statusCode |-> st, patch |-> rq.instr[i],
                      body |-> CapturedBody(rq.kind, rq.body,
                                            ps[rq.instr[i]].maxBodyBytes)]]
       IN /\ fired' = SelectSeq(all, LAMBDA e :
                          ps[e.patch].cb = "ni" /\ h.fire /\ ~ni.disposed)
          /\ last' = [kind |-> rq.kind, callbacks |-> Len(rq.instr), statusCode |-> st,
                      enabledAtStart |-> rq.enabledAtStart,
                      limitAtStart |-> rq.limitAtStart,
                      raised |-> h.raised /\ \E i \in 1..Len(rq.instr) :
                                               ps[rq.instr[i]].cb = "ni"]
  /\ flight' = Tail(flight)
  /\ UNCHANGED <<glob, patches, ni, sessions>>
  /\ UNCHANGED restLife

\* the extension: one NetworkInterceptor is the only caller of the patchers
NextLife ==
  \/ Enable \/ Disable \/ Toggle \/ UpdateConfig \/ Dispose
  \/ Connect \/ CloseSession \/ StartRequest \/ EndRequest

\* the patchers as a library: any caller, any order of patch and restore
NextPatchers ==
  \/ PatchCall \/ UnpatchCall
  \/ Connect \/ CloseSession \/ StartRequest \/ EndRequest

----------------------------------------------------------------------------
(* JS values, JSON text, parseSSEEvents *)

\* A JS value is a tagged record. Text (a body, an SSE stream) is a sequence
\* of text atoms: white space, line feed, the literals "data:" and "[DONE]",
\* other characters, and whole JSON documents that carry their value. An
\* atom is never split, and two atoms side by side never read as one JSON
\* document.
\* every value has every field, so that any two values can be compared
NoFields == [k \in {} |-> 0]
JValue(t, b, n, s, e, o) == [t |-> t, b |-> b, n |-> n, s |-> s, e |-> e, o |-> o]
JNull == JValue("null", FALSE, 0, <<>>, <<>>, NoFields)
JUndef == JValue("undefined", FALSE, 0, <<>>, <<>>, NoFields)
JBool(b) == JValue("boolean", b, 0, <<>>, <<>>, NoFields)
JNum(n) == JValue("number", FALSE, n, <<>>, <<>>, NoFields)
\* s: the atoms of the string
JStr(s) == JValue("string", FALSE, 0, s, <<>>, NoFields)
\* e: the elements
JArr(e) == JValue("array", FALSE, 0, <<>>, e, NoFields)
\* o: the properties, a record
JObj(o) == JValue("object", FALSE, 0, <<>>, <<>>, o)

Atom(a) == [a |-> a, j |-> JUndef]
WS == Atom(" ")
NL == Atom("nl")
CR == Atom("cr")
DATA == Atom("data:")
DONE == Atom("[DONE]")
JUNK == Atom("x")
Doc(value) == [a |-> "json", j |-> value]

\* what String.prototype.trim strips
IsSpace(c) == c.a \in {" ", "nl", "cr"}

RECURSIVE TrimStart(_)
TrimStart(s) == IF s # <<>> /\ IsSpace(Head(s)) THEN TrimStart(Tail(s)) ELSE s

RECURSIVE TrimEnd(_)
TrimEnd(s) ==
  IF s # <<>> /\ IsSpace(s[Len(s)]) THEN TrimEnd(SubSeq(s, 1, Len(s) - 1)) ELSE s

\* s.trim()
Trim(s) == TrimEnd(TrimStart(s))

\* JSON.parse(text): white space around the document is allowed, anything
\* but exactly one document raises SyntaxError
JsonParse(text) ==
  LET t == Trim(text) IN
  IF Len(t) = 1 /\ t[1].a = "json" THEN [tag |-> "ok", v |-> t[1].j]
  ELSE [tag |-> "throw", v |-> JUndef]

RECURSIVE SplitLines(_)
\* raw.split("\n")
SplitLines(s) ==
  IF \A i \in 1..Len(s) : s[i] # NL THEN <<s>>
  ELSE LET k == CHOOSE i \in 1..Len(s) : s[i] = NL /\ \A j \in 1..(i - 1) : s[j] # NL
       IN <<SubSeq(s, 1, k - 1)>> \o SplitLines(SubSeq(s, k + 1, Len(s)))

\* the loop body with the prefix test and the slice on the untrimmed line
SSELine_NoTrim(results, line) ==
  IF ~StartsWith(line, <<DATA>>) THEN results
  ELSE LET payload == Trim(Tail(line)) IN
       IF payload = <<DONE>> THEN results
       ELSE IF JsonParse(payload).tag = "ok" THEN Append(results, JsonParse(payload).v)
       ELSE results

\* the body of the loop of parseSSEEvents for one line
SSELine(results, line) ==
  LET trimmed == Trim(line) IN
  IF ~StartsWith(trimmed, <<DATA>>) THEN results
  ELSE LET payload == Trim(Tail(trimmed)) IN
       IF payload = <<DONE>> THEN results
       ELSE IF JsonParse(payload).tag = "ok" THEN Append(results, JsonParse(payload).v)
       ELSE results

RECURSIVE SSELoop(_, _)
SSELoop(results, lines) ==
  IF lines = <<>> THEN results
  ELSE SSELoop(SSELine(results, Head(lines)), Tail(lines))

\* parseSSEEvents(raw)
parseSSEEvents(text) == SSELoop(<<>>, SplitLines(text))

----------------------------------------------------------------------------
(* JS evaluation rules the parsers rely on *)

Nullish(x) == x.t \in {"null", "undefined"}

\* x.k for x neither null nor undefined (those raise TypeError, which the
\* callers test first)
Prop(x, k) == IF x.t = "object" /\ k \in DOMAIN x.o THEN x.o[k] ELSE JUndef

\* x?.k
OptProp(x, k) == IF Nullish(x) THEN JUndef ELSE Prop(x, k)

\* x[0] for x neither null nor undefined
Index0(x) ==
  CASE x.t = "array" -> IF x.e = <<>> THEN JUndef ELSE x.e[1]
    [] x.t = "string" -> IF x.s = <<>> THEN JUndef ELSE JStr(<<x.s[1]>>)
    [] OTHER -> Prop(x, "0")

\* x?.[0]
OptIndex0(x) == IF Nullish(x) THEN JUndef ELSE Index0(x)

JsTruthy(x) ==
  CASE x.t \in {"null", "undefined"} -> FALSE
    [] x.t = "boolean" -> x.b
    [] x.t = "number" -> x.n # 0
    [] x.t = "string" -> x.s # <<>>
    [] OTHER -> TRUE

\* x === "word"
Is(x, word) == x.t = "string" /\ x.s = <<Atom(word)>>

\* String(x) as += and join apply it: a string is itself, anything else
\* becomes one atom naming its type
ToText(x) == IF x.t = "string" THEN x.s ELSE <<Atom(x.t)>>

\* a + b on a string a
Plus(a, b) == JStr(a.s \o ToText(b))

\* toLowerCase on one atom
LowerAtom(c) ==
  CASE c.a = "User" -> Atom("user")
    [] c.a = "USER" -> Atom("user")
    [] c.a = "Model" -> Atom("model")
    [] OTHER -> c

\* the word a one-atom string consists of, "" for any other string
WordOf(s) == IF Len(s) = 1 THEN s[1].a ELSE ""

toLowerCase(s) == [i \in 1..Len(s) |-> LowerAtom(s[i])]

\* what for..of iterates: array elements, the characters of a string;
\* anything else is not iterable
Iterable(x) == x.t \in {"array", "string"}

Elements(x) == IF x.t = "array" THEN x.e ELSE [i \in 1..Len(x.s) |-> JStr(<<x.s[i]>>)]

\* ParsedMessage and the outcomes of a parser
NoMessage == [role |-> "none", content |-> JUndef]

ParsedMessage(role, content) == [role |-> role, content |-> content]

ParseNull == [tag |-> "null", provider |-> "none", userMessages |-> <<>>,
              assistantMessage |-> NoMessage]

ParseThrow == [tag |-> "throw", provider |-> "none", userMessages |-> <<>>,
               assistantMessage |-> NoMessage]

ParseOk(provider, userMessages, assistantContent) ==
  [tag |-> "ok", provider |-> provider, userMessages |-> userMessages,
   assistantMessage |-> IF JsTruthy(assistantContent)
                        THEN ParsedMessage("assistant", assistantContent)
                        ELSE NoMessage]

\* outcome of a loop or helper: a value, or a raise
Ok(value) == [tag |-> "ok", v |-> value]
Raise(value) == [tag |-> "throw", v |-> value]

----------------------------------------------------------------------------
(* parseOpenAIExchange *)

\* normalizeRole(role) of the OpenAI parser; role is truthy here
normalizeRoleOpenAI(role) ==
  IF role.t # "string" THEN Raise("none")
  ELSE LET w == WordOf(toLowerCase(role.s)) IN
       IF w \in {"user", "assistant", "system"} THEN Ok(w) ELSE Ok("none")

RECURSIVE OpenAIMessages(_, _)
\* the loop over request.messages
OpenAIMessages(msgs, acc) ==
  IF msgs = <<>> THEN Ok(acc)
  ELSE LET msg == Head(msgs) IN
       IF Nullish(msg) THEN Raise(acc)
       ELSE IF JsTruthy(Prop(msg, "role")) /\ JsTruthy(Prop(msg, "content"))
       THEN LET r == normalizeRoleOpenAI(Prop(msg, "role")) IN
            IF r.tag = "throw" THEN Raise(acc)
            ELSE OpenAIMessages(Tail(msgs),
                   IF r.v # "none"
                   THEN Append(acc, ParsedMessage(r.v, Prop(msg, "content")))
                   ELSE acc)
       ELSE OpenAIMessages(Tail(msgs), acc)

RECURSIVE OpenAIChoices(_, _)
\* the loop over resp.choices of one stream event
OpenAIChoices(choices, acc) ==
  IF choices = <<>> THEN Ok(acc)
  ELSE LET choice == Head(choices) IN
       IF Nullish(choice) THEN Raise(acc)
       ELSE LET content == OptProp(Prop(choice, "delta"), "content") IN
            OpenAIChoices(Tail(choices), IF JsTruthy(content) THEN Plus(acc, content) ELSE acc)

RECURSIVE OpenAIEvents(_, _)
\* the loop over the decoded stream events
OpenAIEvents(evs, acc) ==
  IF evs = <<>> THEN Ok(acc)
  ELSE LET event == Head(evs) IN
       IF Nullish(event) THEN Raise(acc)
       ELSE LET choices == Prop(event, "choices") IN
            IF ~JsTruthy(choices) THEN OpenAIEvents(Tail(evs), acc)
            ELSE IF ~Iterable(choices) THEN Raise(acc)
            ELSE LET r == OpenAIChoices(Elements(choices), acc) IN
                 IF r.tag = "throw" THEN r ELSE OpenAIEvents(Tail(evs), r.v)

\* the non-streaming branch: everything inside try/catch
OpenAIDocument(body) ==
  LET j == JsonParse(body) IN
  IF j.tag = "throw" \/ Nullish(j.v) THEN JStr(<<>>)
  ELSE LET content ==
             OptProp(OptProp(OptIndex0(Prop(j.v, "choices")), "message"), "content")
       IN IF JsTruthy(content) THEN content ELSE JStr(<<>>)

\* the branch taken for the response
OpenAIStreaming(e, request) == e.isStreaming \/ JsTruthy(Prop(request, "stream"))

\* parseOpenAIExchange(exchange)
parseOpenAIExchange(e) ==
  LET j == JsonParse(e.reqBody) IN
  IF j.tag = "throw" THEN ParseNull
  ELSE IF Nullish(j.v) THEN ParseThrow
  ELSE LET messages == Prop(j.v, "messages") IN
       IF ~JsTruthy(messages) \/ messages.t # "array" THEN ParseNull
       ELSE LET um == OpenAIMessages(messages.e, <<>>) IN
            IF um.tag = "throw" THEN ParseThrow
            ELSE IF um.v = <<>> THEN ParseNull
            ELSE IF OpenAIStreaming(e, j.v)
            THEN LET r == OpenAIEvents(parseSSEEvents(e.respBody), JStr(<<>>)) IN
                 IF r.tag = "throw" THEN ParseThrow ELSE ParseOk("openai", um.v, r.v)
            ELSE ParseOk("openai", um.v, OpenAIDocument(e.respBody))

----------------------------------------------------------------------------
(* parseAnthropicExchange *)

\* normalizeRole(role) of the Anthropic parser: role?.toLowerCase()
normalizeRoleAnthropic(role) ==
  IF Nullish(role) THEN Ok("none")
  ELSE IF role.t # "string" THEN Raise("none")
  ELSE LET w == WordOf(toLowerCase(role.s)) IN
       IF w \in {"user", "assistant", "system"} THEN Ok(w) ELSE Ok("none")

RECURSIVE TextBlocks(_)
\* blocks.filter(type === "text" && text).map(text)
TextBlocks(blocks) ==
  IF blocks = <<>> THEN Ok(<<>>)
  ELSE LET block == Head(blocks) IN
       IF Nullish(block) THEN Raise(<<>>)
       ELSE LET rest == TextBlocks(Tail(blocks)) IN
            IF rest.tag = "throw" THEN rest
            ELSE IF Is(Prop(block, "type"), "text") /\ JsTruthy(Prop(block, "text"))
            THEN Ok(<<ToText(Prop(block, "text"))>> \o rest.v)
            ELSE rest

RECURSIVE Join(_, _)
\* pieces.join(sep)
Join(pieces, sep) ==
  IF pieces = <<>> THEN <<>>
  ELSE IF Len(pieces) = 1 THEN pieces[1]
  ELSE pieces[1] \o sep \o Join(Tail(pieces), sep)

\* extractMessageContent(msg): a string, or null
extractMessageContent(msg) ==
  LET content == Prop(msg, "content") IN
  IF content.t = "string" THEN Ok(content)
  ELSE IF content.t = "array"
  THEN LET b == TextBlocks(content.e) IN
       IF b.tag = "throw" THEN Raise(JNull)
       ELSE IF Join(b.v, <<>>) = <<>> THEN Ok(JNull) ELSE Ok(JStr(Join(b.v, <<>>)))
  ELSE Ok(JNull)

RECURSIVE AnthropicMessages(_, _)
\* the loop over request.messages
AnthropicMessages(msgs, acc) ==
  IF msgs = <<>> THEN Ok(acc)
  ELSE LET msg == Head(msgs) IN
       IF Nullish(msg) THEN Raise(acc)
       ELSE LET r == normalizeRoleAnthropic(Prop(msg, "role"))
                c == extractMessageContent(msg)
            IN IF r.tag = "throw" \/ c.tag = "throw" THEN Raise(acc)
               ELSE AnthropicMessages(Tail(msgs),
                      IF r.v # "none" /\ JsTruthy(c.v)
                      THEN Append(acc, ParsedMessage(r.v, c.v)) ELSE acc)

\* the text one stream event adds
AnthropicEventText(ev, acc) ==
  LET a1 == IF /\ Is(Prop(ev, "type"), "content_block_delta")
               /\ Is(OptProp(Prop(ev, "delta"), "type"), "text_delta")
               /\ JsTruthy(OptProp(Prop(ev, "delta"), "text"))
            THEN Plus(acc, Prop(Prop(ev, "delta"), "text")) ELSE acc
  IN IF /\ Is(Prop(ev, "type"), "content_block_start")
        /\ JsTruthy(OptProp(Prop(ev, "content_block"), "text"))
     THEN Plus(a1, Prop(Prop(ev, "content_block"), "text")) ELSE a1

RECURSIVE AnthropicEvents(_, _)
\* the loop over the decoded stream events
AnthropicEvents(evs, acc) ==
  IF evs = <<>> THEN Ok(acc)
  ELSE IF Nullish(Head(evs)) THEN Raise(acc)
  ELSE AnthropicEvents(Tail(evs), AnthropicEventText(Head(evs), acc))

\* the non-streaming branch: everything inside try/catch
AnthropicDocument(body) ==
  LET j == JsonParse(body) IN
  IF j.tag = "throw" \/ Nullish(j.v) THEN JStr(<<>>)
  ELSE LET content == Prop(j.v, "content") IN
       IF ~JsTruthy(content) THEN JStr(<<>>)
       ELSE IF content.t # "array" THEN JStr(<<>>)
       ELSE LET b == TextBlocks(content.e) IN
            IF b.tag = "throw" THEN JStr(<<>>) ELSE JStr(Join(b.v, <<>>))

AnthropicStreaming(e, request) == e.isStreaming \/ JsTruthy(Prop(request, "stream"))

\* parseAnthropicExchange(exchange)
parseAnthropicExchange(e) ==
  LET j == JsonParse(e.reqBody) IN
  IF j.tag = "throw" THEN ParseNull
  ELSE IF Nullish(j.v) THEN ParseThrow
  ELSE LET messages == Prop(j.v, "messages") IN
       IF ~JsTruthy(messages) \/ messages.t # "array" THEN ParseNull
       ELSE LET system == IF JsTruthy(Prop(j.v, "system"))
                          THEN <<ParsedMessage("system", Prop(j.v, "system"))>>
                          ELSE <<>>
                um == AnthropicMessages(messages.e, system)
            IN IF um.tag = "throw" THEN ParseThrow
               ELSE IF um.v = <<>> THEN ParseNull
               ELSE IF AnthropicStreaming(e, j.v)
               THEN LET r == AnthropicEvents(parseSSEEvents(e.respBody), JStr(<<>>)) IN
                    IF r.tag = "throw" THEN ParseThrow ELSE ParseOk("anthropic", um.v, r.v)
               ELSE ParseOk("anthropic", um.v, AnthropicDocument(e.respBody))

----------------------------------------------------------------------------
(* parseGoogleExchange *)

\* normalizeGoogleRole(role)
normalizeGoogleRole(role) ==
  IF Nullish(role) THEN Ok("none")
  ELSE IF role.t # "string" THEN Raise("none")
  ELSE LET w == WordOf(toLowerCase(role.s)) IN
       CASE w = "user" -> Ok("user")
         [] w = "model" -> Ok("assistant")
         [] w = "system" -> Ok("system")
         [] OTHER -> Ok("none")

RECURSIVE PartsTexts(_)
\* parts.filter(p => p.text != null).map(p => p.text)
PartsTexts(parts) ==
  IF parts = <<>> THEN Ok(<<>>)
  ELSE IF Nullish(Head(parts)) THEN Raise(<<>>)
  ELSE LET rest == PartsTexts(Tail(parts))
           text == Prop(Head(parts), "text")
       IN IF rest.tag = "throw" THEN rest
          ELSE IF Nullish(text) THEN rest
          ELSE Ok(<<ToText(text)>> \o rest.v)

\* extractPartsText(parts)
extractPartsText(parts) ==
  IF ~JsTruthy(parts) THEN Ok(<<>>)
  ELSE IF parts.t # "array" THEN Raise(<<>>)
  ELSE LET t == PartsTexts(parts.e) IN
       IF t.tag = "throw" THEN t ELSE Ok(Join(t.v, <<>>))

RECURSIVE CandidateTexts(_)
\* resp.candidates.map(c => extractPartsText(c.content?.parts))
CandidateTexts(cands) ==
  IF cands = <<>> THEN Ok(<<>>)
  ELSE IF Nullish(Head(cands)) THEN Raise(<<>>)
  ELSE LET t == extractPartsText(OptProp(Prop(Head(cands), "content"), "parts"))
           rest == CandidateTexts(Tail(cands))
       IN IF t.tag = "throw" \/ rest.tag = "throw" THEN Raise(<<>>)
          ELSE Ok(<<t.v>> \o rest.v)

\* extractCandidateText(resp)
extractCandidateText(document) ==
  IF Nullish(document) THEN Raise(<<>>)
  ELSE LET candidates == Prop(document, "candidates") IN
       IF ~JsTruthy(candidates) THEN Ok(<<>>)
       ELSE IF candidates.t # "array" THEN Raise(<<>>)
       ELSE LET t == CandidateTexts(candidates.e) IN
            IF t.tag = "throw" THEN t ELSE Ok(Join(t.v, <<>>))

RECURSIVE GoogleContents(_, _)
\* the loop over request.contents
GoogleContents(contents, acc) ==
  IF contents = <<>> THEN Ok(acc)
  ELSE LET content == Head(contents) IN
       IF Nullish(content) THEN Raise(acc)
       ELSE LET r == normalizeGoogleRole(Prop(content, "role"))
                t == extractPartsText(Prop(content, "parts"))
            IN IF r.tag = "throw" \/ t.tag = "throw" THEN Raise(acc)
               ELSE GoogleContents(Tail(contents),
                      IF r.v # "none" /\ t.v # <<>>
                      THEN Append(acc, ParsedMessage(r.v, JStr(t.v))) ELSE acc)

RECURSIVE GoogleItems(_, _)
\* assistantContent += extractCandidateText(item) over a list of response
\* documents; a raise keeps what was added before it
GoogleItems(items, acc) ==
  IF items = <<>> THEN Ok(acc)
  ELSE LET t == extractCandidateText(Head(items)) IN
       IF t.tag = "throw" THEN Raise(acc)
       ELSE GoogleItems(Tail(items), JStr(acc.s \o t.v))

\* the try block shared in shape by the JSON-array fallback of the streaming
\* branch (whole: FALSE) and the non-streaming branch (whole: TRUE, where a
\* single document is read as well)
GoogleDocument(body, whole) ==
  LET j == JsonParse(body) IN
  IF j.tag = "throw" THEN JStr(<<>>)
  ELSE IF j.v.t = "array" THEN GoogleItems(j.v.e, JStr(<<>>)).v
  ELSE IF ~whole THEN JStr(<<>>)
  ELSE LET t == extractCandidateText(j.v) IN
       IF t.tag = "throw" THEN JStr(<<>>) ELSE JStr(t.v)

\* parseGoogleExchange(exchange)
parseGoogleExchange(e) ==
  LET j == JsonParse(e.reqBody) IN
  IF j.tag = "throw" THEN ParseNull
  ELSE IF Nullish(j.v) THEN ParseThrow
  ELSE LET contents == Prop(j.v, "contents") IN
       IF ~JsTruthy(contents) \/ contents.t # "array" THEN ParseNull
       ELSE LET um == GoogleContents(contents.e, <<>>) IN
            IF um.tag = "throw" THEN ParseThrow
            ELSE IF um.v = <<>> THEN ParseNull
            ELSE IF e.isStreaming
            THEN LET evs == parseSSEEvents(e.respBody) IN
                 IF Len(evs) > 0
                 THEN LET r == GoogleItems(evs, JStr(<<>>)) IN
                      IF r.tag = "throw" THEN ParseThrow ELSE ParseOk("google", um.v, r.v)
                 ELSE ParseOk("google", um.v, GoogleDocument(e.respBody, FALSE))
            ELSE ParseOk("google", um.v, GoogleDocument(e.respBody, TRUE))

----------------------------------------------------------------------------
(* parseExchangeToConversation *)

\* text of the given words, one atom each
T(words) == [i \in 1..Len(words) |-> Atom(words[i])]

DigitChars == <<"0", "1", "2", "3", "4", "5", "6", "7", "8", "9">>

RECURSIVE Digits(_)
\* String(n) for a non-negative integer
Digits(n) ==
  IF n < 10 THEN <<Atom(DigitChars[n + 1])>>
  ELSE Digits(n \div 10) \o <<Atom(DigitChars[(n % 10) + 1])>>

\* createHash("sha256").update(text).digest("hex"), and the prefixes taken
\* of it: the digest stands for its input, two texts have the same digest
\* exactly when they are the same text
Sha256(text) == <<Atom("sha256(")>> \o text \o <<Atom(")")>>

\* generateConversationId that buckets by the second
generateConversationId_BySecond(source, userMessage, timestamp) ==
  LET minuteKey == timestamp \div 1000 IN
  T(<<"int-">>) \o Sha256(T(<<source, ":">>) \o Digits(minuteKey) \o T(<<":">>)
                          \o ToText(userMessage))

\* generateConversationId(source, userMessage, timestamp)
generateConversationId(source, userMessage, timestamp) ==
  LET minuteKey == timestamp \div MinuteMs IN
  T(<<"int-">>) \o Sha256(T(<<source, ":">>) \o Digits(minuteKey) \o T(<<":">>)
                          \o ToText(userMessage))

\* computeSourceHash(exchange)
computeSourceHash(e) == Sha256(e.reqBody \o e.respBody)

\* truncate(text, maxLength); text.replace raises on anything but a string
truncate(text, maxLength) ==
  IF text.t # "string" THEN Raise(<<>>)
  ELSE LET clean == Trim([i \in 1..Len(text.s) |->
                            IF text.s[i] = NL THEN WS ELSE text.s[i]])
       IN IF Len(clean) <= maxLength THEN Ok(clean)
          ELSE Ok(Slice0(clean, maxLength - 3) \o T(<<".", ".", ".">>))

PARSERS(provider, e) ==
  CASE provider = "openai" -> parseOpenAIExchange(e)
    [] provider = "google" -> parseGoogleExchange(e)
    [] OTHER -> parseAnthropicExchange(e)

PROVIDER_TO_SOURCE(provider) ==
  CASE provider = "openai" -> "copilot"
    [] provider = "google" -> "antigravity"
    [] OTHER -> "claude-code"

\* outcomes of the converter
ConvNull == [tag |-> "null", id |-> <<>>, title |-> <<>>, sourceIde |-> "none",
             sourceHash |-> <<>>, createdAt |-> 0, updatedAt |-> 0, messages |-> <<>>]

ConvThrow == [ConvNull EXCEPT !.tag = "throw"]

ConvPending == [ConvNull EXCEPT !.tag = "pending"]

\* a Message; fields copied from the exchange without a decision (model,
\* endpoint label, timestamps) are left out
Message(id, role, content) == [id |-> id, role |-> role, content |-> content]

\* the last user-role message of the parsed exchange, NoMessage for none
\* (filter(...).at(-1))
LastUserMsg(p) ==
  LET users == SelectSeq(p.userMessages, LAMBDA m : m.role = "user") IN
  IF users = <<>> THEN NoMessage ELSE users[Len(users)]

\* the messages array and the returned Conversation
ConversationOf(e, now, p, lastUserMsg, sourceIde, conversationId, title) ==
  IF title.tag = "throw" THEN ConvThrow
  ELSE [tag |-> "ok", id |-> conversationId, title |-> title.v,
        sourceIde |-> sourceIde, sourceHash |-> computeSourceHash(e),
        createdAt |-> now, updatedAt |-> now,
        messages |->
          <<Message(conversationId \o T(<<"-msg-", "0">>), "user", lastUserMsg.content)>>
          \o IF p.assistantMessage.role = "assistant"
             THEN <<Message(conversationId \o T(<<"-msg-", "1">>), "assistant",
                            p.assistantMessage.content)>>
             ELSE <<>>]

\* the same with an id that leaves the request timestamp out
FromLastUserMsg_NoTimestamp(e, now, p, lastUserMsg) ==
  IF lastUserMsg = NoMessage THEN ConvNull
  ELSE ConversationOf(e, now, p, lastUserMsg, PROVIDER_TO_SOURCE(e.provider),
         generateConversationId(PROVIDER_TO_SOURCE(e.provider), lastUserMsg.content, 0),
         truncate(lastUserMsg.content, TitleMax))

\* from the check of the last user message on
FromLastUserMsg(e, now, p, lastUserMsg) ==
  IF lastUserMsg = NoMessage THEN ConvNull
  ELSE ConversationOf(e, now, p, lastUserMsg, PROVIDER_TO_SOURCE(e.provider),
         generateConversationId(PROVIDER_TO_SOURCE(e.provider), lastUserMsg.content,
                                e.timestamp),
         truncate(lastUserMsg.content, TitleMax))

\* from the parser's outcome on; an exception of the parser is not caught
FromParsed(e, now, p) ==
  IF p.tag = "throw" THEN ConvThrow
  ELSE IF p.tag = "null" THEN ConvNull
  ELSE FromLastUserMsg(e, now, p, LastUserMsg(p))

\* parseExchangeToConversation(exchange), called when the clock reads now
parseExchangeToConversation(e, now) == FromParsed(e, now, PARSERS(e.provider, e))

----------------------------------------------------------------------------
(* An SSE text built atom by atom and parsed *)

\* atoms an SSE text is made of; the documents are null and an object
SSEAtoms == {WS, NL, CR, DATA, DONE, JUNK, Doc(JNull), Doc(JObj([n |-> JNum(1)]))}

IdleSSE == raw = <<>> /\ events = <<>>

InitSSE == raw = <<>> /\ events = parseSSEEvents(<<>>)

\* the text grows by one atom and is parsed again
Feed ==
  /\ Len(raw) < MaxSseAtoms
  /\ \E c \in SSEAtoms : raw' = Append(raw, c)
  /\ events' = parseSSEEvents(raw')
  /\ UNCHANGED restSSE

NextSSE == Feed

----------------------------------------------------------------------------
(* Exchanges handed to the onExchange listener *)

\* the JS string made of the given words
Txt(words) == JStr(T(words))

Msg(role, content) == JObj([role |-> role, content |-> content])

Hi == Txt(<<"h", "i">>)

\* a content given as blocks
HiBlocks == JArr(<<JObj([type |-> Txt(<<"text">>), text |-> Hi]),
                   JObj([type |-> Txt(<<"image">>)])>>)

Parts(text) == JObj([parts |-> JArr(<<JObj([text |-> text])>>)])

Content(role, text) == JObj([role |-> role, parts |-> JArr(<<JObj([text |-> text])>>)])

\* request documents: not an object, no array, entries that are null or
\* carry a non-string role, one and several turns, blank and block content,
\* and the same in the Gemini shape
RequestDocs ==
  { JNull, JNum(5), Hi, JArr(<<>>),
    JObj([model |-> Txt(<<"m">>)]),
    JObj([messages |-> Hi]),
    JObj([messages |-> JArr(<<JNull>>)]),
    JObj([messages |-> JArr(<<Msg(JNum(1), Hi)>>)]),
    JObj([messages |-> JArr(<<Msg(Txt(<<"user">>), Hi)>>)]),
    JObj([messages |-> JArr(<<Msg(Txt(<<"user">>), Hi)>>), stream |-> JBool(TRUE)]),
    JObj([messages |-> JArr(<<Msg(Txt(<<"user">>), Txt(<<"o", "l", "d">>)),
                              Msg(Txt(<<"assistant">>), Txt(<<"r", "e">>)),
                              Msg(Txt(<<"User">>), Hi),
                              Msg(Txt(<<"tool">>), Txt(<<"t">>))>>)]),
    JObj([messages |-> JArr(<<Msg(Txt(<<"system">>), Txt(<<"s">>))>>)]),
    JObj([messages |-> JArr(<<Msg(Txt(<<"user">>), Txt(<<" ">>))>>)]),
    JObj([messages |-> JArr(<<Msg(Txt(<<"user">>), HiBlocks)>>)]),
    JObj([contents |-> JArr(<<JNull>>)]),
    JObj([contents |-> JArr(<<Content(JNum(1), Hi)>>)]),
    JObj([contents |-> JArr(<<Content(Txt(<<"user">>), Hi)>>)]),
    JObj([contents |-> JArr(<<Content(Txt(<<"user">>), Hi)>>), stream |-> JBool(TRUE)]),
    JObj([contents |-> JArr(<<Content(Txt(<<"user">>), Txt(<<"o">>)),
                              Content(Txt(<<"model">>), Txt(<<"r">>)),
                              Content(Txt(<<"user">>), Txt(<<" ">>))>>)]) }

\* request bodies: each document, a document inside white space, and texts
\* that are not JSON (empty, garbage, a document cut short)
RequestBodies ==
  { <<Doc(d)>> : d \in RequestDocs }
  \cup { <<WS, Doc(JObj([messages |-> JArr(<<Msg(Txt(<<"user">>), Hi)>>)])), NL>>,
         <<>>, <<JUNK>>, <<Doc(JObj([messages |-> JArr(<<>>)])), JUNK>> }

A == Txt(<<"a">>)
B == Txt(<<"b">>)
C == Txt(<<"c">>)

Delta(text) == JObj([delta |-> JObj([content |-> text])])

Choice(text) == JObj([message |-> JObj([content |-> text])])

Candidate(text) == JObj([content |-> Parts(text)])

\* response bodies: event streams and single documents of the three
\* providers with two completions or two text pieces, a stream with a null
\* event, a JSON array of documents, and texts that are not JSON
ResponseBodies ==
  { <<DATA, WS, Doc(JObj([choices |-> JArr(<<Delta(A)>>)])), NL, JUNK, NL,
      DATA, Doc(JObj([choices |-> JArr(<<Delta(B), Delta(C)>>)])), NL, DATA, WS, DONE>>,
    <<DATA, Doc(JObj([choices |-> JArr(<<Delta(A)>>)])), NL, DATA, Doc(JNull)>>,
    <<DATA, Doc(JObj([type |-> Txt(<<"content_block_start">>),
                      content_block |-> JObj([text |-> A])])), NL,
      DATA, Doc(JObj([type |-> Txt(<<"content_block_delta">>),
                      delta |-> JObj([type |-> Txt(<<"text_delta">>), text |-> B])]))>>,
    <<DATA, Doc(JObj([candidates |-> JArr(<<Candidate(A)>>)])), NL,
      DATA, Doc(JObj([candidates |-> JArr(<<Candidate(B)>>)]))>>,
    <<Doc(JObj([choices |-> JArr(<<Choice(A), Choice(B)>>)]))>>,
    <<Doc(JObj([content |-> JArr(<<JObj([type |-> Txt(<<"text">>), text |-> A]),
                                   JObj([type |-> Txt(<<"text">>), text |-> B])>>)]))>>,
    <<Doc(JObj([candidates |-> JArr(<<Candidate(A), Candidate(B)>>)]))>>,
    <<Doc(JArr(<<JObj([candidates |-> JArr(<<Candidate(A)>>)]),
                 JObj([candidates |-> JArr(<<Candidate(B)>>)])>>))>>,
    <<Doc(JNull)>>, <<JUNK>>, <<>> }

\* request timestamps in ms: 10 s apart inside a minute (0, 10000) and
\* across its end (55000, 65000), 1 ms apart across it (59999, 60000), and
\* 90 s apart (65000, 155000)
TimestampSamples == {0, 10000, 55000, 59999, 60000, 65000, 155000}

\* readings of the clock when the listener runs
ClockSamples == {200000, 300000}

ExchangeSamples ==
  [provider : {"openai", "google", "anthropic"}, reqBody : RequestBodies,
   respBody : ResponseBodies, isStreaming : BOOLEAN, timestamp : TimestampSamples]

NoExchange == [provider |-> "none", reqBody |-> <<>>, respBody |-> <<>>,
               isStreaming |-> FALSE, timestamp |-> 0]

ParsePending == [ParseNull EXCEPT !.tag = "pending"]

IdleParse == ex = NoExchange /\ parserOut = ParsePending /\ conv = ConvPending

InitExchange == ex \in ExchangeSamples /\ parserOut = ParsePending /\ conv = ConvPending

\* the onExchange listener of the extension runs on the exchange: the
\* converter calls the provider's parser and builds the conversation
OnExchange ==
  /\ ex # NoExchange /\ conv.tag = "pending"
  /\ parserOut' = PARSERS(ex.provider, ex)
  /\ \E now \in ClockSamples : conv' = parseExchangeToConversation(ex, now)
  /\ UNCHANGED ex
  /\ UNCHANGED restParse

----------------------------------------------------------------------------
(* BaseExtractor helpers and ClaudeCodeExtractor.parseJsonlFile *)

\* deterministicId(input): the UUID-shaped rendering of sha256(input)
deterministicId(input) == T(<<"uuid:">>) \o Sha256(input)

\* generateSourceHash(sourceIde, messages)
generateSourceHash(sourceIde, messages) ==
  LET firstThree == [i \in 1..Min(3, Len(messages)) |-> messages[i].content.s] IN
  Sha256(T(<<sourceIde, ":">>) \o Join(firstThree, <<NL>>))

\* deriveTitle cutting at the limit itself
deriveTitle_CutAtLimit(messages) ==
  LET users == SelectSeq(messages, LAMBDA m : m.role = "user") IN
  IF users = <<>> THEN T(<<"Untitled">>)
  ELSE LET text == Trim(users[1].content.s) IN
       IF Len(text) <= TitleLimit THEN text
       ELSE Slice0(text, TitleLimit) \o T(<<".", ".", ".">>)

\* deriveTitle(messages)
deriveTitle(messages) ==
  LET users == SelectSeq(messages, LAMBDA m : m.role = "user") IN
  IF users = <<>> THEN T(<<"Untitled">>)
  ELSE LET text == Trim(users[1].content.s) IN
       IF Len(text) <= TitleLimit THEN text
       ELSE Slice0(text, TitleKeep) \o T(<<".", ".", ".">>)

\* BaseExtractor.normalizeRole(role); role.toLowerCase raises on a non-string
normalizeRole(role) ==
  IF role.t # "string" THEN Raise("none")
  ELSE LET w == WordOf(toLowerCase(role.s)) IN
       IF w \in {"user", "human"} THEN Ok("user")
       ELSE IF w \in {"assistant", "ai", "bot"} THEN Ok("assistant")
       ELSE Ok("system")

\* the id of the message pushed at position index with the given timestamp,
\* derived from the timestamp
JsonlMessageId_Stamped(filePath, index, timestamp) ==
  deterministicId(T(<<"claude-code:", filePath, ":">>)
                  \o IF timestamp.t = "number" THEN Digits(timestamp.n)
                     ELSE ToText(timestamp))

\* the id of the message pushed at position index (messages.length)
JsonlMessageId(filePath, index, timestamp) ==
  deterministicId(T(<<"claude-code:", filePath, ":">>) \o Digits(index))

\* the text of entry.message.content: a string as it is, blocks joined by
\* line feeds
JsonlText(content) ==
  IF content.t = "string" THEN Ok(content.s)
  ELSE IF content.t # "array" THEN Raise(<<>>)
  ELSE LET b == TextBlocks(content.e) IN
       IF b.tag = "throw" THEN b ELSE Ok(Join(b.v, <<NL>>))

RECURSIVE JsonlLoop(_, _, _, _)
\* the loop over the non-blank lines; a raise leaves the loop for the
\* catch around the whole function
JsonlLoop(lines, messages, filePath, now) ==
  IF lines = <<>> THEN Ok(messages)
  ELSE LET j == JsonParse(Head(lines)) IN
       IF j.tag = "throw" THEN JsonlLoop(Tail(lines), messages, filePath, now)
       ELSE IF Nullish(j.v) THEN Raise(messages)
       ELSE LET message == Prop(j.v, "message") IN
            IF ~JsTruthy(OptProp(message, "role")) \/ ~JsTruthy(OptProp(message, "content"))
            THEN JsonlLoop(Tail(lines), messages, filePath, now)
            ELSE LET timestamp == IF Nullish(Prop(j.v, "timestamp")) THEN JNum(now)
                                  ELSE Prop(j.v, "timestamp")
                     text == JsonlText(Prop(message, "content"))
                     role == normalizeRole(Prop(message, "role"))
                 IN IF text.tag = "throw" THEN Raise(messages)
                    ELSE IF Trim(text.v) = <<>>
                    THEN JsonlLoop(Tail(lines), messages, filePath, now)
                    ELSE IF role.tag = "throw" THEN Raise(messages)
                    ELSE JsonlLoop(Tail(lines),
                           Append(messages,
                             [id |-> JsonlMessageId(filePath, Len(messages), timestamp),
                              role |-> role.v, content |-> JStr(text.v),
                              timestamp |-> timestamp]),
                           filePath, now)

\* outcomes of the extractor
NoConversation == [tag |-> "null", id |-> <<>>, title |-> <<>>, sourceHash |-> <<>>,
                   messages |-> <<>>]

NotExtracted == [NoConversation EXCEPT !.tag = "pending"]

\* parseJsonlFile(filePath) on a file with the given content, called when the
\* clock reads now; of the conversation's own timestamps nothing is kept,
\* each message carries its own
parseJsonlFile(content, filePath, now) ==
  LET lines == SelectSeq(SplitLines(content), LAMBDA line : Len(Trim(line)) > 0)
      r == JsonlLoop(lines, <<>>, filePath, now)
  IN IF r.tag = "throw" THEN NoConversation
     ELSE IF r.v = <<>> THEN NoConversation
     ELSE [tag |-> "ok", id |-> deterministicId(T(<<"claude-code:", filePath>>)),
           title |-> deriveTitle(r.v),
           sourceHash |-> generateSourceHash("claude-code", r.v), messages |-> r.v]

----------------------------------------------------------------------------
(* A Claude Code session file that grows and is extracted *)

Long(n) == [i \in 1..n |-> Atom("a")]

Entry(role, content) == JObj([message |-> JObj([role |-> Txt(<<role>>), content |-> content])])

\* lines of a session file: a dated user turn, user turns one character
\* over and exactly at the title limit, an assistant turn in blocks, a blank
\* turn, an entry without message, a null entry, and a line that is no JSON
LineSamples ==
  { <<Doc(JObj([message |-> JObj([role |-> Txt(<<"user">>), content |-> Hi]),
                timestamp |-> Txt(<<"2024-01-01T00:00:00Z">>)]))>>,
    <<Doc(Entry("human", JStr(Long(TitleLimit + 1))))>>,
    <<Doc(Entry("user", JStr(<<WS>> \o Long(TitleLimit) \o <<WS>>)))>>,
    <<Doc(Entry("assistant",
                JArr(<<JObj([type |-> Txt(<<"text">>), text |-> A]),
                       JObj([type |-> Txt(<<"tool_use">>)]),
                       JObj([type |-> Txt(<<"text">>), text |-> B])>>)))>>,
    <<Doc(Entry("user", Txt(<<" ">>)))>>,
    <<Doc(JObj([sessionId |-> Txt(<<"s1">>)]))>>,
    <<Doc(JNull)>>,
    <<JUNK>> }

FilePath == "session.jsonl"

Written == Cardinality({ i \in 1..Len(file) : file[i] = NL })

IdleExtract == file = <<>> /\ extracted = NotExtracted

\* Claude Code appends a line to the session file
WriteLine ==
  /\ ex = NoExchange
  /\ Written < MaxLines
  /\ \E line \in LineSamples : file' = file \o line \o <<NL>>
  /\ extracted' = NotExtracted
  /\ UNCHANGED restExtract

\* the extractor reads the file
Extract ==
  /\ ex = NoExchange
  /\ \E now \in ClockSamples : extracted' = parseJsonlFile(file, FilePath, now)
  /\ UNCHANGED file
  /\ UNCHANGED restExtract

\* the parts not involved in a run: no SSE text, no exchange, no file
IdleText == IdleSSE /\ IdleParse /\ IdleExtract

NextConversations == OnExchange \/ WriteLine \/ Extract

----------------------------------------------------------------------------
(* A BodyCollector driven by arbitrary push calls *)


\* chunks handed to push: text (ASCII, two- and three-byte characters),
\* binary pieces that cut a character in two, and the empty chunk
ChunkSamples ==
  { StrChunk(<<>>), StrChunk(<<97>>), StrChunk(<<98, 233>>), StrChunk(<<8364>>),
    BufChunk(<<99, 100>>), BufChunk(<<195>>), BufChunk(<<169, 101>>) }

InitBC ==
  /\ \E m \in 0..MaxLimit : bc = NewCollector(m)
  /\ pushed = <<>>
  /\ lastPush = "none"

IdleBC ==
  /\ bc = NewCollector(0)
  /\ pushed = <<>>
  /\ lastPush = "none"

\* collector.push(chunk)
Push ==
  \E chunk \in ChunkSamples :
    /\ Len(pushed) < MaxPushes
    /\ bc' = PushState(bc, chunk)
    /\ lastPush' = IF PushResult(bc, chunk) THEN "true" ELSE "false"
    /\ pushed' = Append(pushed, chunk)
    /\ UNCHANGED restBC

NextBC == Push

RECURSIVE AllBytes(_)
\* the concatenation of the bytes of a list of chunks
AllBytes(cs) == IF cs = <<>> THEN <<>> ELSE ChunkBytes(Head(cs)) \o AllBytes(Tail(cs))

vars == <<varsFront, varsBack>>

InitCollector == InitBC /\ IdleCall /\ IdleLife /\ IdleText /\ IdleBack

SpecBC == InitCollector /\ [][NextBC]_vars

NextCall ==
  \/ HttpsCall \/ HttpsWrite \/ HttpsEnd \/ HttpsResponse \/ HttpsData
  \/ HttpsResEnd \/ HttpsError
  \/ H2Connect \/ H2Request \/ H2Write \/ H2End \/ H2Response \/ H2Data
  \/ H2StreamEnd
  \/ FetchCall \/ FetchReqText \/ FetchSettle \/ FetchChunk \/ FetchBodyEnd

InitOneCall == InitCall /\ IdleBC /\ IdleLife /\ IdleText /\ IdleBack

InitLifecycle == InitLife /\ IdleBC /\ IdleCall /\ IdleText /\ IdleBack

Spec == InitLifecycle /\ [][NextLife]_vars

InitPatchers == IdleLife /\ IdleBC /\ IdleCall /\ IdleText /\ IdleBack

SpecPatchers == InitPatchers /\ [][NextPatchers]_vars

SpecCall == InitOneCall /\ [][NextCall]_vars

\* nothing of the interceptor or of the text handling is running
IdleFront == IdleBC /\ IdleCall /\ IdleLife /\ IdleText

InitEvents ==
  InitSSE /\ IdleBC /\ IdleCall /\ IdleLife /\ IdleParse /\ IdleExtract /\ IdleBack

SpecSSE == InitEvents /\ [][NextSSE]_vars

InitConversations ==
  /\ ex \in ExchangeSamples \cup {NoExchange}
  /\ parserOut = ParsePending /\ conv = ConvPending
  /\ IdleExtract /\ IdleSSE /\ IdleBC /\ IdleCall /\ IdleLife /\ IdleBack

SpecConversations == InitConversations /\ [][NextConversations]_vars

\* C8: after any pushes the content is the first min(total, maxBytes) bytes
\* of everything pushed, size is its length, isTruncated holds exactly when
\* more than maxBytes were pushed, and a push on a truncated collector
\* returns false and changes neither content nor size.
C8_CollectorPrefix ==
  /\ [](/\ CollectorBytes(bc) = Slice0(AllBytes(pushed), bc.maxBytes)
        /\ bc.totalBytes = Len(CollectorBytes(bc))
        /\ bc.totalBytes = Min(Len(AllBytes(pushed)), bc.maxBytes)
        /\ bc.truncated <=> (Len(AllBytes(pushed)) > bc.maxBytes))
  /\ [][bc.truncated =>
          /\ lastPush' = "false"
          /\ CollectorBytes(bc') = CollectorBytes(bc)
          /\ bc'.totalBytes = bc.totalBytes]_vars

\* a collector that cut a chunk in the middle and then refused a further push
C8_Witness ==
  /\ bc.truncated
  /\ bc.maxBytes > 0
  /\ Len(AllBytes(pushed)) > bc.maxBytes + 1
  /\ Len(bc.chunks) >= 2
  /\ Len(pushed) > Len(bc.chunks)
  /\ lastPush = "false"

----------------------------------------------------------------------------
(* Claims about one call through a patched transport *)

\* C1: interception is fail-open. Whatever raises in the capture path, the
\* caller never observes a capture error, and once the call is over the
\* caller has observed exactly what the unpatched call produced.
C1_FailOpen ==
  /\ seen # "captureError"
  /\ (seen \in {"value", "response", "origError"} => seen = origOut)
  /\ (pc = "done" => seen = origOut)

\* a capture step raised (endpoint matching on a non-string path, or the
\* request wrapper's try block on http2) and the caller still got its value
C1_Witness ==
  /\ tr \in {"https", "http2"}
  /\ cap.match = "throw"
  /\ ~cap.instr
  /\ seen = "value" /\ origOut = "value"

\* C2: for a fetch to a matched endpoint the caller holds the response as
\* soon as the underlying fetch has resolved; reading the clone's body does
\* not stand between the two.
C2_ResponseNotDelayed ==
  (tr = "fetch" /\ cap.instr /\ origOut = "response") => seen = "response"

\* C6: every delivered exchange carries a registry endpoint with the
\* request's hostname and a pathPrefix that starts the request's path, and a
\* call for which matchEndpoint returns null is not instrumented and
\* delivers nothing.
C6_EndpointMatches ==
  /\ \A i \in 1..Len(exch) :
        LET e == exch[i] IN
        /\ e.request.endpoint \in Range(ENDPOINTS)
        /\ e.request.endpoint.hostname = e.request.hostname
        /\ StartsWith(e.request.path, e.request.endpoint.pathPrefix)
  /\ (cap.match = "null" => ~cap.instr /\ exch = <<>>)
  /\ (exch # <<>> => cap.instr /\ cap.match = "ok")

\* an exchange was delivered for a path that is longer than the prefix
C6_Witness ==
  /\ pc = "done"
  /\ exch # <<>>
  /\ Len(exch[1].request.path) > Len(exch[1].request.endpoint.pathPrefix)

\* C9: request.body and response.body of every delivered exchange hold at
\* most maxBodySizeBytes bytes of UTF-8.
C9_BodiesBounded ==
  \A i \in 1..Len(exch) :
     /\ Utf8Len(exch[i].request.body) <= limit
     /\ Utf8Len(exch[i].response.body) <= limit

\* every restore function handed out so far has been called
AllRestored ==
  /\ \E kind \in DOMAIN patches : patches[kind] # <<>>
  /\ \A kind \in DOMAIN patches : \A k \in 1..Len(patches[kind]) :
       patches[kind][k].restored

\* C3: once every restore function returned by the patchers has been called,
\* in any order, each global entry point is the original function again,
\* and calling a restore function once more changes no entry point.
C3_RestoreExact ==
  /\ [](AllRestored => glob = Originals)
  /\ [][(AllRestored /\ patches' = patches) => glob' = glob]_vars

\* C4: a patcher called while its patch is installed adds no second wrapper:
\* no entry point runs through more than one wrapper, and one response is
\* delivered to onExchange once, however often the patchers were called.
C4_NoDoublePatch ==
  /\ \A entry \in {"http.request", "http.get", "https.request", "https.get",
                    "fetch", "http2.connect"} :
       Len(Instrumenters(glob, patches, entry)) <= 1
  /\ \A i \in 1..Len(sessions) : Len(sessions[i]) <= 1
  /\ last.callbacks <= 1

\* C5: an exchange reaches the onExchange listeners only if the interceptor
\* was enabled when its request started; requests started after disable()
\* or dispose(), http2 requests on an older session included, deliver nothing.
C5_NoCaptureAfterDisable ==
  fired # <<>> => last.enabledAtStart

\* C7: onExchange fires only for status codes 200..299, every other exchange
\* is dropped, and handleExchange raises nothing to the patcher calling it.
C7_Only2xx ==
  /\ \A i \in 1..Len(fired) : fired[i].statusCode \in 200..299
  /\ (last.kind # "none" /\ last.statusCode \notin 200..299) => fired = <<>>
  /\ ~last.raised

\* a response with status 299 was delivered to the listeners
C7_Witness == fired # <<>> /\ last.statusCode = 299 /\ last.enabledAtStart

\* C10: an exchange of a request started while the interceptor was enabled
\* carries a body no longer than the maxBodySizeBytes of the configuration
\* in force when the request started.
C10_LimitOfCurrentConfig ==
  \A i \in 1..Len(fired) :
    last.enabledAtStart => Len(fired[i].body) <= last.limitAtStart

\* C11: a provider parser never throws: its outcome is a ParsedChatExchange
\* or null, and it is null whenever the request body is not valid JSON or
\* is JSON without the provider's top-level messages/contents array.
C11_ParsersNeverThrow ==
  parserOut.tag # "pending" =>
    /\ parserOut.tag \in {"ok", "null"}
    /\ LET request == JsonParse(ex.reqBody)
           key == IF ex.provider = "google" THEN "contents" ELSE "messages"
       IN (request.tag = "throw" \/ Prop(request.v, key).t # "array")
            => parserOut.tag = "null"

\* a line that decodes: apart from white space it is "data:" followed by
\* exactly one JSON document
DataLine(line) ==
  LET body == SelectSeq(line, LAMBDA c : ~IsSpace(c)) IN
  Len(body) = 2 /\ body[1] = DATA /\ body[2].a = "json"

\* C12: parseSSEEvents returns, in input order, exactly one parsed JSON
\* value for each line that after trimming starts with data: and whose
\* payload is valid JSON and not [DONE]; every other line contributes
\* nothing.
C12_OneEventPerDataLine ==
  LET good == SelectSeq(SplitLines(raw), DataLine) IN
  events = [k \in 1..Len(good) |-> SelectSeq(good[k], LAMBDA c : c.a = "json")[1].j]

\* two different events were decoded from a text of two data lines
C12_Witness == Len(events) = 2 /\ events[1] # events[2]

\* the text deltas of all events decoded from the response body, added up
\* in order by the provider's streaming loop
StreamedText(e) ==
  CASE e.provider = "openai" -> OpenAIEvents(parseSSEEvents(e.respBody), JStr(<<>>))
    [] e.provider = "google" -> GoogleItems(parseSSEEvents(e.respBody), JStr(<<>>))
    [] OTHER -> AnthropicEvents(parseSSEEvents(e.respBody), JStr(<<>>))

\* the exchange is flagged streaming or its request body has a truthy stream
AsksForStream(e) == e.isStreaming \/ JsTruthy(Prop(JsonParse(e.reqBody).v, "stream"))

\* C13: when the exchange is flagged streaming or the request asked for
\* streaming, the assistant text of each parser is the concatenation, in
\* order, of the text deltas of the SSE events of the response body.
C13_StreamingFromSSE ==
  (parserOut.tag = "ok" /\ AsksForStream(ex)) =>
    parserOut = ParseOk(ex.provider, parserOut.userMessages, StreamedText(ex).v)

\* the text of the first completion of one response document: the first
\* choice's message, the first candidate's parts, the text blocks of the
\* one Anthropic message
FirstCompletion(e, document) ==
  CASE e.provider = "openai" -> OpenAIDocument(e.respBody)
    [] e.provider = "google" ->
         JStr(extractPartsText(
                OptProp(OptProp(OptIndex0(Prop(document, "candidates")), "content"),
                        "parts")).v)
    [] OTHER -> AnthropicDocument(e.respBody)

\* C14: for a non-streaming exchange whose response body is one JSON
\* document, the assistant text is the text of the first completion only.
C14_FirstCompletionOnly ==
  (/\ parserOut.tag = "ok"
   /\ ~AsksForStream(ex)
   /\ JsonParse(ex.respBody).tag = "ok"
   /\ JsonParse(ex.respBody).v.t = "object") =>
    parserOut = ParseOk(ex.provider, parserOut.userMessages,
                        FirstCompletion(ex, JsonParse(ex.respBody).v))

\* C15: the converter returns null when the parsed exchange has no
\* user-role message; otherwise it returns a conversation whose first
\* message is the last user-role message and whose second and last message,
\* present only if an assistant message was reconstructed, is that reply.
C15_LastUserTurnOnly ==
  conv.tag # "pending" =>
    /\ (parserOut.tag = "null" \/ (parserOut.tag = "ok" /\ LastUserMsg(parserOut) = NoMessage))
         => conv.tag = "null"
    /\ (parserOut.tag = "ok" /\ LastUserMsg(parserOut) # NoMessage) =>
         /\ conv.tag = "ok"
         /\ Len(conv.messages) \in {1, 2}
         /\ conv.messages[1].role = "user"
         /\ conv.messages[1].content = LastUserMsg(parserOut).content
         /\ Len(conv.messages) = 2 <=> parserOut.assistantMessage # NoMessage
         /\ Len(conv.messages) = 2 =>
              /\ conv.messages[2].role = "assistant"
              /\ conv.messages[2].content = parserOut.assistantMessage.content

\* the conversation ID the exchange in hand would get had its request been
\* stamped t: same tool tag, same parsed messages
IdAt(t) == FromParsed([ex EXCEPT !.timestamp = t], conv.createdAt, parserOut).id

\* C16 as stated: an exchange with the same tool tag and last user text
\* whose request timestamp is 10 seconds away gets the same conversation ID.
C16_TenSecondsSameId ==
  conv.tag = "ok" =>
    \A t \in TimestampSamples :
      (t - ex.timestamp = 10000 \/ ex.timestamp - t = 10000) => IdAt(t) = conv.id

\* C16: an exchange with the same tool tag and last user text whose request
\* timestamp falls in the same minute bucket, floor(timestamp / 60000), gets
\* the same conversation ID.
C16_SameMinuteSameId ==
  conv.tag = "ok" =>
    \A t \in TimestampSamples :
      (t \div MinuteMs = ex.timestamp \div MinuteMs) => IdAt(t) = conv.id

\* a conversation was built for a request stamped 10 s into the first
\* minute, and has the ID it would have had at 0
C16_Witness == conv.tag = "ok" /\ ex.timestamp = 10000 /\ IdAt(0) = conv.id

\* C17: an exchange with the same tool tag and last user text whose request
\* timestamp falls in a different minute bucket gets a different
\* conversation ID, the hash being injective.
C17_OtherMinuteOtherId ==
  conv.tag = "ok" =>
    \A t \in TimestampSamples :
      (t \div MinuteMs # ex.timestamp \div MinuteMs) => IdAt(t) # conv.id

\* a conversation was built for a request stamped 155 s, and its ID is not
\* the one it would have had 90 s earlier
C17_Witness == conv.tag = "ok" /\ ex.timestamp = 155000 /\ IdAt(65000) # conv.id

\* C18: every conversation emitted by the converter or by the Claude Code
\* extractor has at least one message, and the content of each of its
\* messages is non-empty after trimming white space.
C18_NoBlankContent ==
  /\ conv.tag = "ok" =>
       /\ Len(conv.messages) >= 1
       /\ \A i \in 1..Len(conv.messages) : Trim(ToText(conv.messages[i].content)) # <<>>
  /\ extracted.tag = "ok" =>
       /\ Len(extracted.messages) >= 1
       /\ \A i \in 1..Len(extracted.messages) :
            Trim(ToText(extracted.messages[i].content)) # <<>>

C20_TitleWithinLimit ==
  extracted.tag = "ok" =>
    LET users == SelectSeq(extracted.messages, LAMBDA m : m.role = "user") IN
    /\ Len(extracted.title) <= 80
    /\ users = <<>> => extracted.title = T(<<"Untitled">>)
    /\ (users # <<>> /\ Len(Trim(users[1].content.s)) <= 80) =>
         extracted.title = Trim(users[1].content.s)
    /\ (users # <<>> /\ Len(Trim(users[1].content.s)) > 80) =>
         /\ Len(extracted.title) = 80
         /\ SubSeq(extracted.title, 1, 77) = SubSeq(Trim(users[1].content.s), 1, 77)
         /\ SubSeq(extracted.title, 78, 80) = T(<<".", ".", ".">>)

\* a title was cut: the first user message has more than 80 characters
C20_Witness ==
  /\ extracted.tag = "ok"
  /\ Len(extracted.title) = 80
  /\ extracted.title[80] = Atom(".")
  /\ \E i \in 1..Len(extracted.messages) : Len(extracted.messages[i].content.s) > 80

\* a line that, alone in a file, becomes a message
MessageLine(line) == parseJsonlFile(line, FilePath, 0).tag = "ok"

\* C21: a malformed line of a session file is skipped on its own: every
\* valid message line before and after it still becomes a message, in file
\* order.
C21_BadLineSkipped ==
  extracted.tag # "pending" =>
    LET good == SelectSeq(SplitLines(file), MessageLine) IN
    /\ Len(extracted.messages) = Len(good)
    /\ \A i \in 1..Len(good) :
         extracted.messages[i].content =
           parseJsonlFile(good[i], FilePath, 0).messages[1].content

----------------------------------------------------------------------------
(* extractAll of the file extractors: one pass over the units of a path *)

\* the extractors: Copilot, Cursor reading aiService data, Cursor reading
\* composer data, Claude Code, Antigravity
Extractors == {"copilot", "cursor-ai", "cursor", "claude-code", "antigravity"}

\* a unit of the listing: a workspace directory with its state.vscdb, a
\* session file, a conversation file. wanted: the entry passes the tests of
\* the loop (isDirectory and the database exists, the name ends in .jsonl,
\* isFile); body: what reading and parsing it does
UnitSamples == [wanted : BOOLEAN, body : {"convs", "none", "raise"}]

\* the conversations of unit k when its parse succeeds: one, named by k
ConvsOf(k) == <<k>>

\* CursorExtractor.extractFromVscdb without its try/catch
extractFromVscdb_NoCatch(unit, k) ==
  CASE unit.body = "convs" -> Ok(ConvsOf(k))
    [] unit.body = "none" -> Ok(<<>>)
    [] OTHER -> Raise(<<>>)

\* CursorExtractor.extractFromVscdb (composer data): everything in try/catch
extractFromVscdb(unit, k) ==
  CASE unit.body = "convs" -> Ok(ConvsOf(k))
    [] unit.body = "none" -> Ok(<<>>)
    [] OTHER -> Ok(<<>>)

\* CopilotExtractor.parseVscdb and the aiService extractFromVscdb: the
\* reader is closed in finally, an exception leaves the function
parseVscdb(unit, k) ==
  CASE unit.body = "convs" -> Ok(ConvsOf(k))
    [] unit.body = "none" -> Ok(<<>>)
    [] OTHER -> Raise(<<>>)

\* parseJsonlFile, parseConversationFile: null from the catch around the
\* whole function
parseFile(unit, k) ==
  CASE unit.body = "convs" -> Ok(ConvsOf(k))
    [] unit.body = "none" -> Ok(<<>>)
    [] OTHER -> Ok(<<>>)

\* the parse call of the loop body
ParseUnit(extractor, unit, k) ==
  CASE extractor \in {"copilot", "cursor-ai"} -> parseVscdb(unit, k)
    [] extractor = "cursor" -> extractFromVscdb(unit, k)
    [] OTHER -> parseFile(unit, k)

\* the call sits in a try of its own inside the loop
InnerTry(extractor) == extractor \in {"copilot", "cursor-ai"}

NewScan(extractor, units) ==
  [pc |-> "listing", extractor |-> extractor, units |-> units, i |-> 0,
   conversations |-> <<>>]

InitScan ==
  \E extractor \in Extractors, n \in 0..MaxUnits :
    \E units \in [1..n -> UnitSamples] : scan = NewScan(extractor, units)

\* readdirSync returns the entries
ListUnits ==
  /\ scan.pc = "listing"
  /\ scan' = [scan EXCEPT !.pc = "loop", !.i = 1]
  /\ UNCHANGED restScan

\* readdirSync raises: the catch around the loop, then return conversations
ListFails ==
  /\ scan.pc = "listing"
  /\ scan' = [scan EXCEPT !.pc = "returned"]
  /\ UNCHANGED restScan

\* one iteration of the loop
ScanUnit ==
  /\ scan.pc = "loop" /\ scan.i <= Len(scan.units)
  /\ LET unit == scan.units[scan.i]
         r == ParseUnit(scan.extractor, unit, scan.i)
     IN scan' =
          IF ~unit.wanted THEN [scan EXCEPT !.i = @ + 1]
          ELSE IF r.tag = "ok"
          THEN [scan EXCEPT !.i = @ + 1, !.conversations = @ \o r.v]
          ELSE IF InnerTry(scan.extractor) THEN [scan EXCEPT !.i = @ + 1]
          ELSE [scan EXCEPT !.pc = "returned"]
  /\ UNCHANGED restScan

\* the loop is over: return conversations
ScanReturn ==
  /\ scan.pc = "loop" /\ scan.i > Len(scan.units)
  /\ scan' = [scan EXCEPT !.pc = "returned"]
  /\ UNCHANGED restScan

NextScan == ListUnits \/ ListFails \/ ScanUnit \/ ScanReturn

InitExtractAll == InitScan /\ IdleFront /\ IdleCache /\ IdlePoll /\ IdlePb /\ IdleSync /\ IdleAuth

SpecExtractAll == InitExtractAll /\ [][NextScan]_vars

\* C22: extractAll never throws, and once the listing was read it returns
\* the conversations of every unit whose own reading and parsing succeeded,
\* whatever happened to the other units.
C22_FailSoftPerUnit ==
  /\ scan.pc \in {"listing", "loop", "returned"}
  /\ (scan.pc = "returned" /\ scan.i > 0) =>
       scan.conversations =
         SelectSeq([k \in 1..Len(scan.units) |-> k],
                   LAMBDA k : scan.units[k].wanted /\ scan.units[k].body = "convs")

\* a pass returned a conversation of a unit that comes after a failing one
C22_Witness ==
  /\ scan.pc = "returned"
  /\ \E j, k \in 1..Len(scan.units) :
       /\ j < k
       /\ scan.units[j].wanted /\ scan.units[j].body = "raise"
       /\ \E c \in 1..Len(scan.conversations) : scan.conversations[c] = k

----------------------------------------------------------------------------
(* SyncEngine.storeConversationLocally over the LocalCache tables *)

\* conversation ids and source hashes that occur
ConvIds == 1..2
Hashes == 1..2

\* a Conversation: id, sourceHash and the number of its messages; the
\* message at position k of conversation i has the id (i, k), as the
\* extractors and the converter derive it from the conversation id
ConvSamples == [id : ConvIds, hash : Hashes, n : 1..MaxMessages]

NoConv == [id |-> 0, hash |-> 0, n |-> 0]

\* the conversations table: rows (id, source_hash, synced), id the primary
\* key and source_hash UNIQUE; the messages table: per conversation_id the
\* number of rows; what was last written under each id; how the latest
\* store call ended
NewCache ==
  [rows |-> {}, msgs |-> [i \in ConvIds |-> 0], lastStored |-> [i \in ConvIds |-> NoConv],
   outcome |-> "none"]

\* getConversationByHash(sourceHash): the row, or NoRow
NoRow == [id |-> 0, hash |-> 0, synced |-> FALSE]

getConversationByHash(c, sourceHash) ==
  IF \E r \in c.rows : r.hash = sourceHash
  THEN CHOOSE r \in c.rows : r.hash = sourceHash
  ELSE NoRow

\* upsertConversation(cv, userId, synced): INSERT ... ON CONFLICT(id) DO
\* UPDATE SET title, updated_at, synced. A row with another id and the same
\* source_hash violates the UNIQUE constraint, which the conflict clause
\* does not cover: the statement raises and writes nothing
upsertConversation(c, cv, synced) ==
  IF \E r \in c.rows : r.hash = cv.hash /\ r.id # cv.id THEN Raise(c)
  ELSE IF \E r \in c.rows : r.id = cv.id
  THEN Ok([c EXCEPT !.rows = {IF r.id = cv.id THEN [r EXCEPT !.synced = synced] ELSE r
                              : r \in @}])
  ELSE Ok([c EXCEPT !.rows = @ \cup {[id |-> cv.id, hash |-> cv.hash,
                                      synced |-> synced]}])

\* upsertMessages(conv.messages): rows (cv.id, 0..n-1) inserted or updated
upsertMessages(c, cv) ==
  [c EXCEPT !.msgs[cv.id] = IF cv.n > @ THEN cv.n ELSE @]

\* the two upserts of storeConversationLocally
Upserts(c, cv) ==
  LET u == upsertConversation(c, cv, FALSE) IN
  IF u.tag = "throw" THEN [c EXCEPT !.outcome = "raise"]
  ELSE [upsertMessages(u.v, cv) EXCEPT !.outcome = "stored", !.lastStored[cv.id] = cv]

\* storeConversationLocally(cv, userId)
storeConversationLocally(c, cv) ==
  LET existing == getConversationByHash(c, cv.hash) IN
  IF existing # NoRow
  THEN IF cv.n > c.msgs[existing.id] THEN Upserts(c, cv)
       ELSE [c EXCEPT !.outcome = "kept"]
  ELSE Upserts(c, cv)

InitCache == cache = NewCache

\* an extractor or the interceptor hands a conversation to the engine
Store(cv) ==
  /\ cache' = storeConversationLocally(cache, cv)
  /\ UNCHANGED restCache

\* uploadConversation succeeded for an unsynced conversation:
\* markConversationSynced(cv.id)
Uploaded ==
  /\ \E r \in cache.rows :
       /\ ~r.synced
       /\ cache' = [cache EXCEPT !.rows = (@ \ {r}) \cup {[r EXCEPT !.synced = TRUE]},
                                 !.outcome = "uploaded"]
  /\ UNCHANGED restCache

NextCache == (\E cv \in ConvSamples : Store(cv)) \/ Uploaded

InitStore == InitCache /\ IdleFront /\ IdleScan /\ IdlePoll /\ IdlePb /\ IdleSync /\ IdleAuth

SpecCache == InitStore /\ [][NextCache]_vars

\* C23: the cache holds at most one conversation per source_hash, and no
\* store call raises: a conversation whose source_hash is cached replaces
\* the cached one when it has more messages and changes nothing otherwise.
C23_OnePerHashNoRaise ==
  /\ \A r1, r2 \in cache.rows : r1.hash = r2.hash => r1 = r2
  /\ cache.outcome # "raise"

\* C29: a store of the conversation last stored under its id leaves the
\* tables as they are; a synced row stays synced.
C29_RestoreIsNoOp ==
  [][\A cv \in ConvSamples :
       (Store(cv) /\ cache.lastStored[cv.id] = cv) =>
         (cache'.rows = cache.rows /\ cache'.msgs = cache.msgs)]_vars

----------------------------------------------------------------------------
(* The request info recorded for an http/https call *)

\* C24: the hostname, path and method of an exchange captured from
\* http/https are those the request was issued with, for every call shape;
\* a method given in options after a URL argument is the one recorded.
C24_RecordedAsIssued ==
  (tr = "https" /\ cap.instr /\ cap.issued.found) =>
    /\ cap.info.hostname = cap.issued.hostname
    /\ cap.info.path = cap.issued.path
    /\ cap.info.method = cap.issued.method

----------------------------------------------------------------------------
(* CursorExtractor: polling the workspace databases for changes *)

\* workspace directories under the storage path
PollUnits == 1..2

\* modification times that occur; NoFile: the workspace has no state.vscdb
\* (statSync raises); NotSeen: knownMtimes has no entry for the path
\* largest modification time of a database
MaxMtime == 2
NoFile == 0
NotSeen == 0 - 1

NoUnitStep == [unit |-> 0, lastMtime |-> NotSeen, currentMtime |-> NoFile,
               extracted |-> FALSE, calls |-> 0]

\* timer: this.pollTimer ("none", "set", "cleared")
\* files: the mtime of each workspace's database
\* knownMtimes: the map of the extractor
\* i: the workspace the poll in flight looks at next, 0 when none is in flight
\* step: what the poll did for the workspace it looked at last
\* disposed: the subscription was disposed
\* late: the poll started last began after that
NewPoll ==
  [pc |-> "polling", timer |-> "none", files |-> [u \in PollUnits |-> NoFile],
   knownMtimes |-> [u \in PollUnits |-> NotSeen], i |-> 0, step |-> NoUnitStep,
   disposed |-> FALSE, late |-> FALSE]

\* dispose of the subscription that leaves the interval running
DisposeTimer_NoClear(p) == p

\* dispose(): clearInterval(this.pollTimer)
DisposeTimer(p) ==
  IF p.timer = "set" THEN [p EXCEPT !.timer = "cleared"] ELSE p

\* the body of the loop of pollForChanges for workspace u, whose database
\* holds n conversations
PollUnitStep(p, u, n) ==
  LET currentMtime == p.files[u]
      lastMtime == p.knownMtimes[u]
  IN IF currentMtime = NoFile
     THEN \* statSync raises: caught, next workspace
          [p EXCEPT !.step = [unit |-> u, lastMtime |-> lastMtime, currentMtime |-> NoFile,
                              extracted |-> FALSE, calls |-> 0]]
     ELSE IF lastMtime # NotSeen /\ lastMtime = currentMtime
     THEN [p EXCEPT !.step = [unit |-> u, lastMtime |-> lastMtime,
                              currentMtime |-> currentMtime,
                              extracted |-> FALSE, calls |-> 0]]
     ELSE [p EXCEPT !.knownMtimes[u] = currentMtime,
                    !.step = [unit |-> u, lastMtime |-> lastMtime,
                              currentMtime |-> currentMtime,
                              extracted |-> lastMtime # NotSeen,
                              calls |-> IF lastMtime # NotSeen THEN n ELSE 0]]

InitPoll == poll = NewPoll

\* SyncEngine.initialize subscribes once to each extractor
WatchForChanges ==
  /\ poll.timer = "none"
  /\ poll' = [poll EXCEPT !.timer = "set"]
  /\ UNCHANGED restPoll

\* the interval fires: pollForChanges starts
PollStart ==
  /\ poll.timer = "set"
  /\ poll.i = 0
  /\ poll' = [poll EXCEPT !.i = 1, !.step = NoUnitStep, !.late = poll.disposed]
  /\ UNCHANGED restPoll

\* one workspace of the poll in flight
PollUnit ==
  /\ poll.i \in PollUnits
  /\ \E n \in 0..1 :
       poll' = [PollUnitStep(poll, poll.i, n) EXCEPT
                  !.i = IF poll.i + 1 \in PollUnits THEN poll.i + 1 ELSE 0]
  /\ UNCHANGED restPoll

\* Cursor writes a workspace database, or it is removed
Touch ==
  /\ \E u \in PollUnits, m \in 0..MaxMtime :
       /\ m # poll.files[u]
       /\ poll' = [poll EXCEPT !.files[u] = m]
  /\ UNCHANGED restPoll

\* the subscription is disposed
DisposeWatch ==
  /\ poll.timer = "set" /\ ~poll.disposed
  /\ poll' = [DisposeTimer(poll) EXCEPT !.disposed = TRUE]
  /\ UNCHANGED restPoll

NextPoll == WatchForChanges \/ PollStart \/ PollUnit \/ Touch \/ DisposeWatch

InitPolling == InitPoll /\ IdleFront /\ IdleScan /\ IdleCache /\ IdlePb /\ IdleSync /\ IdleAuth

SpecPoll == InitPolling /\ [][NextPoll]_vars

\* C25: the first poll that sees a database only records its mtime; a later
\* poll re-extracts it and calls back exactly when its mtime differs from
\* the recorded one; no call for an unchanged file; no poll starts after
\* the subscription is disposed.
C25_PollEmitsOnChange ==
  /\ (poll.step.unit # 0 /\ poll.step.currentMtime # NoFile) =>
       /\ poll.step.extracted =
            (poll.step.lastMtime # NotSeen /\ poll.step.lastMtime # poll.step.currentMtime)
       /\ (~poll.step.extracted => poll.step.calls = 0)
       /\ poll.knownMtimes[poll.step.unit] = poll.step.currentMtime
  /\ ~poll.late

\* a later poll found a changed database and called back; the subscription
\* has been disposed since
C25_Witness ==
  /\ poll.step.extracted /\ poll.step.calls = 1
  /\ poll.disposed /\ poll.i = 0
  /\ \E u \in PollUnits : poll.knownMtimes[u] # NotSeen /\ poll.files[u] # poll.knownMtimes[u]

----------------------------------------------------------------------------
(* AntigravityExtractor: the heuristic scan of a protobuf file *)

\* length of the buffers enumerated in full
MaxBytes == 4

\* bytes of the enumerated buffers: tags of wire type 2 that are small
\* lengths too (2, 10), a letter with another wire type (65), continuation
\* bytes with no and with all value bits (128, 255)
PbBytes == {2, 10, 65, 128, 255}

RECURSIVE Repeat(_, _)
Repeat(b, n) == IF n = 0 THEN <<>> ELSE <<b>> \o Repeat(b, n - 1)

\* longer buffers: a field holding 22 letters; a varint of more than five
\* continuation bytes; a varint whose fifth byte reaches the sign bit
PbLongSamples ==
  { <<10, 22>> \o Repeat(97, 22),
    <<2, 255, 255, 255, 255, 255, 255, 65>>,
    <<2, 255, 255, 255, 255, 15, 65>> }

PbBuffers ==
  UNION { [1..n -> PbBytes] : n \in 0..MaxBytes } \cup PbLongSamples

\* a 32-bit integer as the set of its one bits
Bits7(byte) == { i \in 0..6 : (byte \div (2 ^ i)) % 2 = 1 }

\* bits << shift: the shift count is taken modulo 32, bits past 31 are lost
ShiftLeft(bits, shift) == { i + (shift % 32) : i \in bits } \cap (0..31)

RECURSIVE BitsValue(_)
BitsValue(bits) ==
  IF bits = {} THEN 0
  ELSE LET i == CHOOSE j \in bits : TRUE IN 2 ^ i + BitsValue(bits \ {i})

\* the limit on a field's length
MaxFieldLength == 100000

\* length > 0 && length < 100_000, for a length given by its bits
LengthInRange(bits) ==
  /\ bits # {} /\ 31 \notin bits
  /\ bits \subseteq 0..16 /\ BitsValue(bits) < MaxFieldLength

\* readVarint that stops only at a byte without the continuation bit
RECURSIVE readVarintLoop_NoLimit(_, _, _, _, _)
readVarintLoop_NoLimit(buffer, offset, value, shift, bytesRead) ==
  IF ~(offset < Len(buffer)) THEN [value |-> value, bytesRead |-> bytesRead]
  ELSE LET byte == buffer[offset + 1]
           v == value \cup ShiftLeft(Bits7(byte), shift)
       IN IF byte < 128
          THEN [value |-> v, bytesRead |-> bytesRead + 1]
          ELSE readVarintLoop_NoLimit(buffer, offset + 1, v, shift + 7, bytesRead + 1)

\* the loop of readVarint; offset counts from 0 as in the code
RECURSIVE readVarintLoop(_, _, _, _, _)
readVarintLoop(buffer, offset, value, shift, bytesRead) ==
  IF ~(offset < Len(buffer)) THEN [value |-> value, bytesRead |-> bytesRead]
  ELSE LET byte == buffer[offset + 1]
           v == value \cup ShiftLeft(Bits7(byte), shift)
       IN IF byte < 128 \/ bytesRead + 1 > 5
          THEN [value |-> v, bytesRead |-> bytesRead + 1]
          ELSE readVarintLoop(buffer, offset + 1, v, shift + 7, bytesRead + 1)

readVarint(buffer, offset) == readVarintLoop(buffer, offset, {}, 0, 0)

\* characters kept by text.replace(/[^\x20-\x7E\n\r\t]/g, "")
Printable(c) == (c >= 32 /\ c <= 126) \/ c \in {9, 10, 13}

\* text.trim() on the characters that occur
TrimText(text) ==
  LET ws(c) == c \in {9, 10, 13, 32}
      keep == { i \in 1..Len(text) : ~ws(text[i]) }
  IN IF keep = {} THEN <<>>
     ELSE SubSeq(text, CHOOSE i \in keep : \A j \in keep : i <= j,
                       CHOOSE i \in keep : \A j \in keep : i >= j)

\* one iteration of the loop of extractProtobufStrings
\*   read: bytesRead of the readVarint call, 0 when there was none
\*   sliceEnd: the end of the slice taken, 0 when none was taken
ScanIteration(p) ==
  LET tagByte == p.buffer[p.offset + 1]
      r == readVarint(p.buffer, p.offset + 1)
      at == p.offset + 1 + r.bytesRead
      len == BitsValue(r.value)
  IN IF tagByte % 8 # 2
     THEN [p EXCEPT !.offset = @ + 1, !.read = 0, !.sliceEnd = 0]
     ELSE IF LengthInRange(r.value) /\ at + len <= Len(p.buffer)
     THEN LET text == Utf8Decode(SubSeq(p.buffer, at + 1, at + len))
              printable == Len(SelectSeq(text, Printable))
          IN [p EXCEPT !.offset = at + len, !.read = r.bytesRead, !.sliceEnd = at + len,
                       !.strings = IF 10 * printable > 8 * Len(text) /\ Len(text) > 5
                                   THEN Append(@, TrimText(text)) ELSE @]
     ELSE [p EXCEPT !.offset = at + 1, !.read = r.bytesRead, !.sliceEnd = 0]

\* /[a-zA-Z\s]{10,}/.test(s)
LooksLikeChat(s) ==
  LET ok(c) == (c >= 65 /\ c <= 90) \/ (c >= 97 /\ c <= 122) \/ c \in {9, 10, 13, 32}
  IN \E i \in 1..Len(s) : i + 9 <= Len(s) /\ \A j \in i..(i + 9) : ok(s[j])

ChatString(s) == Len(s) > 20 /\ LooksLikeChat(s)

\* parseProtobufFile once the scan has returned: null, or a conversation
\* of one message per chat string
ParseProtobufResult(strings) ==
  LET chatStrings == SelectSeq(strings, ChatString) IN
  IF strings = <<>> \/ chatStrings = <<>> THEN [tag |-> "null", messages |-> 0]
  ELSE [tag |-> "conversation", messages |-> Len(chatStrings)]

NewPb(buffer, readable) ==
  [pc |-> "scan", buffer |-> buffer, readable |-> readable, offset |-> 0, before |-> 0,
   iterations |-> 0, read |-> 0, sliceEnd |-> 0, strings |-> <<>>,
   result |-> [tag |-> "none", messages |-> 0]]

InitPb == \E buffer \in PbBuffers, readable \in BOOLEAN : pb = NewPb(buffer, readable)

\* fs.readFileSync raises: the catch of parseProtobufFile returns null
PbUnreadable ==
  /\ pb.pc = "scan" /\ ~pb.readable
  /\ pb' = [pb EXCEPT !.pc = "returned", !.result = [tag |-> "null", messages |-> 0]]
  /\ UNCHANGED restPb

\* while (offset < buffer.length): one iteration
PbIterate ==
  /\ pb.pc = "scan" /\ pb.readable
  /\ pb.offset < Len(pb.buffer)
  /\ pb' = [ScanIteration(pb) EXCEPT !.before = pb.offset, !.iterations = @ + 1]
  /\ UNCHANGED restPb

\* the loop ends: extractProtobufStrings returns, parseProtobufFile builds
\* its result
PbReturn ==
  /\ pb.pc = "scan" /\ pb.readable
  /\ ~(pb.offset < Len(pb.buffer))
  /\ pb' = [pb EXCEPT !.pc = "returned", !.result = ParseProtobufResult(pb.strings)]
  /\ UNCHANGED restPb

NextPb == PbUnreadable \/ PbIterate \/ PbReturn

InitProtobuf == InitPb /\ IdleFront /\ IdleScan /\ IdleCache /\ IdlePoll /\ IdleSync /\ IdleAuth

SpecPb == InitProtobuf /\ [][NextPb]_vars

\* the extractor runs the scan to its end: nothing else is scheduled while
\* the synchronous loop runs
SpecPbLive == SpecPb /\ WF_vars(NextPb)

\* most bytes one readVarint call may consume
VarintBytes == 6

\* what holds after each iteration of the scan
PbStepSafe ==
  /\ pb.iterations > 0 => pb.offset >= pb.before + 1
  /\ pb.read <= VarintBytes
  /\ pb.sliceEnd <= Len(pb.buffer)
  /\ pb.pc = "returned" => pb.result.tag \in {"null", "conversation"}

\* C26: the scan terminates on every buffer: each iteration advances the
\* offset by at least one, readVarint consumes a bounded number of bytes,
\* no slice ends past the buffer, and parseProtobufFile returns null or a
\* conversation.
C26_ScanTerminates == []PbStepSafe /\ <>(pb.pc = "returned")

\* the field of 22 letters became a conversation of one message
C26_Witness ==
  /\ pb.pc = "returned" /\ pb.result = [tag |-> "conversation", messages |-> 1]
  /\ pb.sliceEnd = Len(pb.buffer) /\ pb.iterations = 1

----------------------------------------------------------------------------
(* The streaming flag of a delivered exchange *)

\* the server-sent-events content types
SSETypes == {"text/event-stream", "text/x-sse"}

\* C27: on every transport a delivered exchange has isStreaming true
\* exactly when the content-type of its response is a server-sent-events
\* type.
C27_StreamingIffSSE ==
  exch # <<>> =>
    (exch[Len(exch)].response.isStreaming <=> resp.contentType \in SSETypes)

----------------------------------------------------------------------------
(* AuthManager: sign-in, sign-out and the token refresh *)

\* authenticated: authState.authenticated
\* jwt: the secret chatsync.supabaseJwt ("none", "jwt", "anon-key-mode")
\* refresh: the refresh-token secret is stored
\* timer: _refreshTimer ("none", "armed", "fired")
\* rpc: the refreshToken call in flight ("idle", "fetch": awaiting the response)
\* opc: the signOut call in flight ("idle", "jwtDeleted", "bothDeleted")
\* signedOut: a signOut call has completed and signIn has not run since
\* events: how many times onAuthStateChanged fired
NewAuth ==
  [pc |-> "running", authenticated |-> FALSE, jwt |-> "none", refresh |-> FALSE,
   timer |-> "none", rpc |-> "idle", opc |-> "idle", signedOut |-> FALSE, events |-> 0]

\* scheduleRefresh(jwt): the old timer is cleared; a new one is armed when
\* the token expires more than five minutes from now
scheduleRefresh(a, expiresLater) ==
  [a EXCEPT !.timer = IF expiresLater THEN "armed" ELSE IF @ = "none" THEN "none" ELSE "fired"]

\* the synchronous tail of signOut: the timer is cleared, the state reset
SignOutTail(a) ==
  [a EXCEPT !.timer = "none", !.authenticated = FALSE]

\* the tail of refreshToken after an ok response: both secrets stored,
\* authState authenticated, the next refresh scheduled
RefreshTail(a, expiresLater) ==
  [scheduleRefresh(a, expiresLater) EXCEPT
     !.jwt = "jwt", !.refresh = TRUE, !.authenticated = TRUE]

\* onAuthStateChanged fires are counted up to this many
MaxAuthEvents == 3

Fired(a) == [a EXCEPT !.events = IF @ < MaxAuthEvents THEN @ + 1 ELSE @]

InitAuth == authm = NewAuth

\* signIn() with a token pair, or in anon-key mode
SignIn ==
  /\ authm.opc = "idle"
  /\ \E mode \in {"token", "anon-key-mode"}, expiresLater \in BOOLEAN :
       authm' = IF mode = "token"
                THEN Fired([scheduleRefresh(authm, expiresLater) EXCEPT
                              !.jwt = "jwt", !.refresh = TRUE, !.authenticated = TRUE,
                              !.signedOut = FALSE])
                ELSE Fired([authm EXCEPT !.jwt = "anon-key-mode", !.authenticated = TRUE,
                                         !.signedOut = FALSE])
  /\ UNCHANGED restAuth

\* refreshToken() is called, by the timer or by getAccessToken on an
\* expired JWT: without a stored refresh token it returns null, otherwise
\* it sends the request and awaits the response
RefreshStart ==
  /\ authm.rpc = "idle"
  /\ authm.timer = "armed" \/ authm.jwt = "jwt"
  /\ authm' = [authm EXCEPT !.timer = IF @ = "armed" THEN "fired" ELSE @,
                            !.rpc = IF authm.refresh THEN "fetch" ELSE "idle"]
  /\ UNCHANGED restAuth

\* the response arrives and is ok
RefreshOk ==
  /\ authm.rpc = "fetch"
  /\ \E expiresLater \in BOOLEAN :
       authm' = Fired([RefreshTail(authm, expiresLater) EXCEPT !.rpc = "idle"])
  /\ UNCHANGED restAuth

\* the response is not ok: refreshToken signs out; or fetch raises: null
RefreshFails ==
  /\ authm.rpc = "fetch"
  /\ \E raised \in BOOLEAN :
       authm' = IF raised THEN [authm EXCEPT !.rpc = "idle"]
                ELSE Fired([SignOutTail(authm) EXCEPT
                              !.rpc = "idle", !.jwt = "none", !.refresh = FALSE])
  /\ UNCHANGED restAuth

\* signOut(): await secrets.delete(JWT)
SignOutDeleteJwt ==
  /\ authm.opc = "idle"
  /\ authm' = [authm EXCEPT !.opc = "jwtDeleted", !.jwt = "none"]
  /\ UNCHANGED restAuth

\* signOut(): await secrets.delete(refresh token)
SignOutDeleteRefresh ==
  /\ authm.opc = "jwtDeleted"
  /\ authm' = [authm EXCEPT !.opc = "bothDeleted", !.refresh = FALSE]
  /\ UNCHANGED restAuth

\* signOut(): the rest runs without awaiting and the call completes
SignOutFinish ==
  /\ authm.opc = "bothDeleted"
  /\ authm' = Fired([SignOutTail(authm) EXCEPT !.opc = "idle", !.signedOut = TRUE])
  /\ UNCHANGED restAuth

NextAuth ==
  \/ SignIn \/ RefreshStart \/ RefreshOk \/ RefreshFails
  \/ SignOutDeleteJwt \/ SignOutDeleteRefresh \/ SignOutFinish

InitAuthManager ==
  InitAuth /\ IdleFront /\ IdleScan /\ IdleCache /\ IdlePoll /\ IdlePb /\ IdleSync

SpecAuth == InitAuthManager /\ [][NextAuth]_vars

\* C30: once signOut has completed, authState.authenticated is false and no
\* JWT is stored until the next signIn, whatever was in flight.
C30_SignedOutStaysOut ==
  authm.signedOut => (~authm.authenticated /\ authm.jwt = "none")

----------------------------------------------------------------------------
(* SyncEngine.fullSync: the runs started by initialize, by the auth-state
   listener and by the sync command *)

\* fullSync calls that may be in flight together
MaxSyncCalls == 3

SyncCalls == 1..MaxSyncCalls

SyncPhases == {"extract", "upload", "download"}

\* a call: where it is ("idle", a phase it awaits, "done", "failed",
\* "skipped") and the phases it has entered
NoCall == [pc |-> "idle", work |-> {}]

NewSync ==
  [pc |-> "running", syncInProgress |-> FALSE, authenticated |-> FALSE,
   calls |-> [c \in SyncCalls |-> NoCall]]

\* a run whose flag is reset only at the end of the try block
RunEnds_NoFinally(s, c, outcome) ==
  [s EXCEPT !.calls[c].pc = outcome,
            !.syncInProgress = IF outcome = "done" THEN FALSE ELSE @]

\* the run of call c ends: the catch fires sync-error when it failed, and
\* the finally block resets the flag either way
RunEnds(s, c, outcome) ==
  [s EXCEPT !.calls[c].pc = outcome, !.syncInProgress = FALSE]

\* the phase after the awaited one; phases 2 and 3 are skipped when not
\* authenticated at the time they are reached
PhaseAfter(ph, authenticated) ==
  CASE ph = "extract" /\ authenticated -> "upload"
    [] ph = "upload" /\ authenticated -> "download"
    [] OTHER -> "done"

InitSync == sync = NewSync

\* fullSync() is called: it returns at once when a run is in progress,
\* otherwise it sets the flag and awaits the extraction
FullSync ==
  /\ \E c \in SyncCalls :
       /\ sync.calls[c].pc \notin SyncPhases
       /\ sync' = IF sync.syncInProgress
                  THEN [sync EXCEPT !.calls[c] = [pc |-> "skipped", work |-> {}]]
                  ELSE [sync EXCEPT !.syncInProgress = TRUE,
                                    !.calls[c] = [pc |-> "extract", work |-> {"extract"}]]
  /\ UNCHANGED restSync

\* the awaited phase of a run completes: the next phase starts, or the run
\* completes
PhaseDone ==
  /\ \E c \in SyncCalls :
       /\ sync.calls[c].pc \in SyncPhases
       /\ LET next == PhaseAfter(sync.calls[c].pc, sync.authenticated) IN
          sync' = IF next = "done" THEN RunEnds(sync, c, "done")
                  ELSE [sync EXCEPT !.calls[c] = [pc |-> next, work |-> @.work \cup {next}]]
  /\ UNCHANGED restSync

\* something in the try block raises
PhaseFails ==
  /\ \E c \in SyncCalls :
       /\ sync.calls[c].pc \in SyncPhases
       /\ sync' = RunEnds(sync, c, "failed")
  /\ UNCHANGED restSync

\* the user signs in or out
AuthChanges ==
  /\ sync' = [sync EXCEPT !.authenticated = ~@]
  /\ UNCHANGED restSync

NextSync == FullSync \/ PhaseDone \/ PhaseFails \/ AuthChanges

InitSyncEngine ==
  InitSync /\ IdleFront /\ IdleScan /\ IdleCache /\ IdlePoll /\ IdlePb /\ IdleAuth

SpecSync == InitSyncEngine /\ [][NextSync]_vars

ActiveCalls == { c \in SyncCalls : sync.calls[c].pc \in SyncPhases }

\* C28: at most one fullSync run is active; a call made during a run
\* returns without extracting, uploading or downloading; syncInProgress is
\* true exactly while a run is active, so it is false after every run,
\* completed or failed.
C28_OneRunAtATime ==
  /\ Cardinality(ActiveCalls) <= 1
  /\ \A c \in SyncCalls : sync.calls[c].pc = "skipped" => sync.calls[c].work = {}
  /\ sync.syncInProgress <=> ActiveCalls # {}

\* a run started after another failed; a call made during it was skipped
C28_Witness ==
  \E c1, c2, c3 \in SyncCalls :
    /\ sync.calls[c1].pc = "failed"
    /\ sync.calls[c2].pc = "download"
    /\ sync.calls[c3].pc = "skipped"

====
